---- MODULE Spec2Model ----
(***************************************************************************)
(* Model of the subtitle shifter: the shift engine (shiftTime), the        *)
(* timestamp codec and the HTTP / desktop handlers built on them.          *)
(*                                                                         *)
(* Objects live in a heap (a sequence of objects addressed by position),   *)
(* so that "a new collection", "a copy" and "the input is not mutated"     *)
(* are statements about references and not only about values.             *)
(***************************************************************************)
EXTENDS Integers, Sequences, FiniteSets, Bags, TLC

VARIABLES
    heap,          \* the objects allocated so far; a reference is an index
    heap0,         \* the heap as it was when the last shiftTime call began
    cues,          \* reference of the array passed to shiftTime (0: none)
    offsetMs,      \* offset argument of the last shiftTime call
    startTimeMs,   \* window start argument: Null or Some(ms)
    endTimeMs,     \* window end argument: Null or Some(ms)
    result,        \* reference of the array shiftTime returned (0: none)
    origVals,      \* cue values of the first input of a +k / -k round trip
    pc,            \* "idle", "returned" (after shiftTime), "inverted"
    req,           \* the request a handler was given: [kind, body]
    res,           \* what the handler answered
    bodyCues,      \* the cues of the request body as the handler left them
    apiPc,         \* "idle", "responded"
    codec,         \* the last call of the timestamp codec: [op, ...]
    server,        \* the requests a server process is working on at once
    ui             \* the page: state, elements, requests awaited

engineVars == <<heap, heap0, cues, offsetMs, startTimeMs, endTimeMs, result,
                origVals, pc>>
apiVars == <<req, res, bodyCues, apiPc>>
vars == <<heap, heap0, cues, offsetMs, startTimeMs, endTimeMs, result,
          origVals, pc, req, res, bodyCues, apiPc, codec, server, ui>>

----------------------------------------------------------------------------
(* Bounds of the model *)

MaxLen == 2        \* cues in a collection
MaxTime == 2       \* largest start / end of an input cue, in ms
MaxOffset == 3     \* largest offset magnitude (exceeds every start time)
MaxClients == 2    \* requests a server process works on at once
MaxAwaited == 2    \* answers the page awaits at once

Times == 0..MaxTime
Offsets == (0 - MaxOffset)..MaxOffset

(* The text of the cue at position i: neighbours have different texts *)
TextAt(i) == IF i % 2 = 1 THEN "Hello" ELSE "World"

(* JavaScript null / a present number *)
Null == <<>>
Some(v) == <<v>>
Val(o) == o[1]

(* The (startTimeMs, endTimeMs) arguments: both omitted, one of them null, *)
(* or a window, inverted ones included.                                    *)
Windows ==
    {<<Null, Null>>, <<Some(0), Null>>, <<Null, Some(0)>>}
    \cup {<<Some(a), Some(b)>> : a \in Times, b \in Times}

Max(a, b) == IF a >= b THEN a ELSE b

----------------------------------------------------------------------------
(* The shift engine: src/utils/srt-shifter.js shiftTime *)

(* Variant: the bounds are tested for truth, startTimeMs && endTimeMs, so  *)
(* a bound of 0 counts as absent.                                          *)
isPartialShiftByTruth(s, e) ==
    /\ s # Null /\ e # Null
    /\ Val(s) # 0 /\ Val(e) # 0

(* const isPartialShift = startTimeMs !== null && endTimeMs !== null; *)
isPartialShift(s, e) == s # Null /\ e # Null

(* Variant: the window end is exclusive (cue.start < endTimeMs) *)
cueInRangeEndExclusive(cue, s, e) ==
    \/ ~isPartialShift(s, e)
    \/ (cue.start >= Val(s) /\ cue.start < Val(e))

(* const cueInRange = !isPartialShift ||
       (cue.start >= startTimeMs && cue.start <= endTimeMs); *)
cueInRange(cue, s, e) ==
    \/ ~isPartialShift(s, e)
    \/ (cue.start >= Val(s) /\ cue.start <= Val(e))

(* Variant: the final Math.max(newStart, newEnd) is left out *)
ShiftCueNoEndClamp(cue, off, s, e) ==
    IF ~cueInRange(cue, s, e)
    THEN cue
    ELSE [cue EXCEPT !.start = Max(0, cue.start + off),
                     !.end = Max(0, cue.end + off)]

(* Variant: the start is not clamped to 0 *)
ShiftCueNoZeroClamp(cue, off, s, e) ==
    IF ~cueInRange(cue, s, e)
    THEN cue
    ELSE LET newStart == cue.start + off
             newEnd == Max(0, cue.end + off)
         IN  [cue EXCEPT !.start = newStart, !.end = Max(newStart, newEnd)]

(* Variant: the offset is applied to the start only *)
ShiftCueEndNotShifted(cue, off, s, e) ==
    IF ~cueInRange(cue, s, e)
    THEN cue
    ELSE LET newStart == Max(0, cue.start + off)
             newEnd == Max(0, cue.end)
         IN  [cue EXCEPT !.start = newStart, !.end = Max(newStart, newEnd)]

(* Variant: the end is kept strictly after the start *)
ShiftCueEndAfterStart(cue, off, s, e) ==
    IF ~cueInRange(cue, s, e)
    THEN cue
    ELSE LET newStart == Max(0, cue.start + off)
             newEnd == Max(0, cue.end + off)
         IN  [cue EXCEPT !.start = newStart, !.end = Max(newStart + 1, newEnd)]

(* The callback of cues.map: the object it returns for one cue *)
ShiftCue(cue, off, s, e) ==
    IF ~cueInRange(cue, s, e)
    THEN cue                                        \* { ...cue }
    ELSE LET newStart == Max(0, cue.start + off)
             newEnd == Max(0, cue.end + off)
         IN  [cue EXCEPT !.start = newStart,        \* { ...cue, start, end }
                         !.end = Max(newStart, newEnd)]

(* Variant: the outputs come back in reverse order *)
MapCuesReversed(vals, off, s, e) ==
    [i \in 1..Len(vals) |-> ShiftCue(vals[Len(vals) + 1 - i], off, s, e)]

(* cues.map(callback) on values: one output per input, in input order *)
MapCues(vals, off, s, e) ==
    [i \in 1..Len(vals) |-> ShiftCue(vals[i], off, s, e)]

(* The values of the cues of the array at reference arr *)
CueVals(h, arr) == [i \in 1..Len(h[arr]) |-> h[h[arr][i]]]

(* Variant: a cue outside the window is returned itself (return cue), only *)
(* the shifted cues are fresh objects.                                     *)
shiftTimeSharingUnshifted(h, arr, off, s, e) ==
    LET n == Len(h[arr])
        objs == MapCues(CueVals(h, arr), off, s, e)
        arrObj == [i \in 1..n |->
                     IF cueInRange(h[h[arr][i]], s, e) THEN Len(h) + i
                     ELSE h[arr][i]]
    IN  [heap |-> h \o objs \o <<arrObj>>, ref |-> Len(h) + n + 1]

(* Variant: the cues are updated in place and the input array is returned  *)
shiftTimeInPlace(h, arr, off, s, e) ==
    LET objs == MapCues(CueVals(h, arr), off, s, e)
    IN  [heap |-> [r \in 1..Len(h) |->
                     IF \E i \in 1..Len(h[arr]) : h[arr][i] = r
                     THEN objs[CHOOSE i \in 1..Len(h[arr]) : h[arr][i] = r]
                     ELSE h[r]],
         ref |-> arr]

(* shiftTime on the heap: every callback result is a fresh object and map  *)
(* returns a fresh array; nothing already allocated is written.            *)
shiftTime(h, arr, off, s, e) ==
    LET n == Len(h[arr])
        objs == MapCues(CueVals(h, arr), off, s, e)
        arrObj == [i \in 1..n |-> Len(h) + i]
    IN  [heap |-> h \o objs \o <<arrObj>>, ref |-> Len(h) + n + 1]

----------------------------------------------------------------------------
(* JavaScript values that cross the HTTP / IPC boundary.  A string that    *)
(* the code inspects character by character (a timestamp text, a file      *)
(* name) is a sequence of one-character strings.                           *)

Undefined == [t |-> "undefined"]
JsNull == [t |-> "null"]
(* Numbers that are not integers: NaN, Infinity, and k/2 for an odd k *)
NaN == [t |-> "number", special |-> "NaN"]
Infinity == [t |-> "number", special |-> "Infinity"]
Half(k) == [t |-> "number", halves |-> k]
isNaN(v) == v = NaN
Str(chars) == [t |-> "string", v |-> chars]
Num(n) == [t |-> "number", n |-> n]
Arr(elems) == [t |-> "array", elems |-> elems]

DigitChars == <<"0", "1", "2", "3", "4", "5", "6", "7", "8", "9">>
IsDigit(ch) == \E d \in 1..10 : DigitChars[d] = ch
DigitVal(ch) == (CHOOSE d \in 1..10 : DigitChars[d] = ch) - 1
AllDigits(t, a, b) == \A i \in a..b : IsDigit(t[i])

(* parseInt(text, 10) of a captured group of digits *)
RECURSIVE parseInt(_)
parseInt(t) ==
    IF t = <<>> THEN 0
    ELSE parseInt(SubSeq(t, 1, Len(t) - 1)) * 10 + DigitVal(t[Len(t)])

(* String.prototype.trim *)
Whitespace == {" ", "\t", "\n", "\r"}
RECURSIVE trimStart(_)
trimStart(t) ==
    IF t # <<>> /\ t[1] \in Whitespace THEN trimStart(Tail(t)) ELSE t
RECURSIVE trimEnd(_)
trimEnd(t) ==
    IF t # <<>> /\ t[Len(t)] \in Whitespace
    THEN trimEnd(SubSeq(t, 1, Len(t) - 1)) ELSE t
trim(t) == trimEnd(trimStart(t))

(* /^(\d{1,2}):(\d{2}):(\d{2})[,.](\d{3})$/ ; h is the width of the hours *)
fullMatch(t) ==
    LET h == Len(t) - 10
    IN  /\ h \in {1, 2}
        /\ AllDigits(t, 1, h)
        /\ t[h + 1] = ":"
        /\ AllDigits(t, h + 2, h + 3)
        /\ t[h + 4] = ":"
        /\ AllDigits(t, h + 5, h + 6)
        /\ t[h + 7] \in {",", "."}
        /\ AllDigits(t, h + 8, h + 10)

(* /^(\d{1,2}):(\d{2}):(\d{2})$/ *)
hmsMatch(t) ==
    LET h == Len(t) - 6
    IN  /\ h \in {1, 2}
        /\ AllDigits(t, 1, h)
        /\ t[h + 1] = ":"
        /\ AllDigits(t, h + 2, h + 3)
        /\ t[h + 4] = ":"
        /\ AllDigits(t, h + 5, h + 6)

(* /^(\d{1,2}):(\d{2})$/ *)
msMatch(t) ==
    LET m == Len(t) - 3
    IN  /\ m \in {1, 2}
        /\ AllDigits(t, 1, m)
        /\ t[m + 1] = ":"
        /\ AllDigits(t, m + 2, m + 3)

(* /^(\d+)$/ *)
secondsMatch(t) == Len(t) >= 1 /\ AllDigits(t, 1, Len(t))

(* Variant: the text is matched as given, timestamp.trim() is missing *)
parseTimestampNoTrim(timestamp) ==
    IF timestamp.t # "string" \/ timestamp.v = <<>> THEN 0
    ELSE LET trimmed == timestamp.v
             h == Len(trimmed) - 10
             g == Len(trimmed) - 6
             m == Len(trimmed) - 3
         IN  IF fullMatch(trimmed) THEN
                 parseInt(SubSeq(trimmed, 1, h)) * 3600000
                 + parseInt(SubSeq(trimmed, h + 2, h + 3)) * 60000
                 + parseInt(SubSeq(trimmed, h + 5, h + 6)) * 1000
                 + parseInt(SubSeq(trimmed, h + 8, h + 10))
             ELSE IF hmsMatch(trimmed) THEN
                 parseInt(SubSeq(trimmed, 1, g)) * 3600000
                 + parseInt(SubSeq(trimmed, g + 2, g + 3)) * 60000
                 + parseInt(SubSeq(trimmed, g + 5, g + 6)) * 1000
             ELSE IF msMatch(trimmed) THEN
                 parseInt(SubSeq(trimmed, 1, m)) * 60000
                 + parseInt(SubSeq(trimmed, m + 2, m + 3)) * 1000
             ELSE IF secondsMatch(trimmed) THEN
                 parseInt(trimmed) * 1000
             ELSE 0

(* Variant: the M:SS pattern lacks its ^ anchor, /(\d{1,2}):(\d{2})$/, so a *)
(* text that only ends in M:SS is read as M:SS.                            *)
parseTimestampUnanchoredMs(timestamp) ==
    IF timestamp.t # "string" \/ timestamp.v = <<>> THEN 0
    ELSE LET trimmed == trim(timestamp.v)
             h == Len(trimmed) - 10
             g == Len(trimmed) - 6
             m == Len(trimmed) - 3
             n == Len(trimmed)
         IN  IF fullMatch(trimmed) THEN
                 parseInt(SubSeq(trimmed, 1, h)) * 3600000
                 + parseInt(SubSeq(trimmed, h + 2, h + 3)) * 60000
                 + parseInt(SubSeq(trimmed, h + 5, h + 6)) * 1000
                 + parseInt(SubSeq(trimmed, h + 8, h + 10))
             ELSE IF hmsMatch(trimmed) THEN
                 parseInt(SubSeq(trimmed, 1, g)) * 3600000
                 + parseInt(SubSeq(trimmed, g + 2, g + 3)) * 60000
                 + parseInt(SubSeq(trimmed, g + 5, g + 6)) * 1000
             ELSE IF n >= 5 /\ msMatch(SubSeq(trimmed, n - 4, n)) THEN
                 parseInt(SubSeq(trimmed, n - 4, n - 3)) * 60000
                 + parseInt(SubSeq(trimmed, n - 1, n)) * 1000
             ELSE IF n >= 4 /\ msMatch(SubSeq(trimmed, n - 3, n)) THEN
                 parseInt(SubSeq(trimmed, n - 3, n - 3)) * 60000
                 + parseInt(SubSeq(trimmed, n - 1, n)) * 1000
             ELSE IF secondsMatch(trimmed) THEN
                 parseInt(trimmed) * 1000
             ELSE 0

(* parseTimestamp of src/utils/srt-shifter.js: a JavaScript value to ms *)
parseTimestamp(timestamp) ==
    IF timestamp.t # "string" \/ timestamp.v = <<>> THEN 0
    ELSE LET trimmed == trim(timestamp.v)
             h == Len(trimmed) - 10
             g == Len(trimmed) - 6
             m == Len(trimmed) - 3
         IN  IF fullMatch(trimmed) THEN
                 parseInt(SubSeq(trimmed, 1, h)) * 3600000
                 + parseInt(SubSeq(trimmed, h + 2, h + 3)) * 60000
                 + parseInt(SubSeq(trimmed, h + 5, h + 6)) * 1000
                 + parseInt(SubSeq(trimmed, h + 8, h + 10))
             ELSE IF hmsMatch(trimmed) THEN
                 parseInt(SubSeq(trimmed, 1, g)) * 3600000
                 + parseInt(SubSeq(trimmed, g + 2, g + 3)) * 60000
                 + parseInt(SubSeq(trimmed, g + 5, g + 6)) * 1000
             ELSE IF msMatch(trimmed) THEN
                 parseInt(SubSeq(trimmed, 1, m)) * 60000
                 + parseInt(SubSeq(trimmed, m + 2, m + 3)) * 1000
             ELSE IF secondsMatch(trimmed) THEN
                 parseInt(trimmed) * 1000
             ELSE 0

(* parseTimestamp of the desktop main process: only the two H:MM:SS forms *)
ipcParseTimestamp(timestamp) ==
    IF timestamp.t # "string" \/ timestamp.v = <<>> THEN 0
    ELSE LET trimmed == trim(timestamp.v)
             h == Len(trimmed) - 10
             g == Len(trimmed) - 6
         IN  IF fullMatch(trimmed) THEN
                 parseInt(SubSeq(trimmed, 1, h)) * 3600000
                 + parseInt(SubSeq(trimmed, h + 2, h + 3)) * 60000
                 + parseInt(SubSeq(trimmed, h + 5, h + 6)) * 1000
                 + parseInt(SubSeq(trimmed, h + 8, h + 10))
             ELSE IF hmsMatch(trimmed) THEN
                 parseInt(SubSeq(trimmed, 1, g)) * 3600000
                 + parseInt(SubSeq(trimmed, g + 2, g + 3)) * 60000
                 + parseInt(SubSeq(trimmed, g + 5, g + 6)) * 1000
             ELSE 0

(* Number.prototype.toString of a non-negative integer *)
RECURSIVE toString(_)
toString(n) ==
    IF n < 10 THEN <<DigitChars[n + 1]>>
    ELSE toString(n \div 10) \o <<DigitChars[(n % 10) + 1]>>

(* String.prototype.padStart(width, '0') *)
RECURSIVE padStart(_, _)
padStart(t, width) == IF Len(t) >= width THEN t ELSE padStart(<<"0">> \o t, width)

(* Variant: the hours wrap at 24 *)
formatTimestampWrapping(ms) ==
    LET hours == (ms \div 3600000) % 24
        minutes == (ms % 3600000) \div 60000
        seconds == (ms % 60000) \div 1000
        milliseconds == ms % 1000
    IN  padStart(toString(hours), 2) \o <<":">>
        \o padStart(toString(minutes), 2) \o <<":">>
        \o padStart(toString(seconds), 2) \o <<",">>
        \o padStart(toString(milliseconds), 3)

(* formatTimestamp: ms to "HH:MM:SS,mmm", for a non-negative integer ms *)
formatTimestamp(ms) ==
    LET hours == ms \div 3600000
        minutes == (ms % 3600000) \div 60000
        seconds == (ms % 60000) \div 1000
        milliseconds == ms % 1000
    IN  padStart(toString(hours), 2) \o <<":">>
        \o padStart(toString(minutes), 2) \o <<":">>
        \o padStart(toString(seconds), 2) \o <<",">>
        \o padStart(toString(milliseconds), 3)

----------------------------------------------------------------------------
(* The HTTP routes (src/routes/api.js) and the desktop IPC handlers.       *)
(* A file's content is represented by what the subtitle library's          *)
(* parseSync makes of it: it throws, or it returns a sequence of nodes.    *)

(* parseSRT of src/utils/srt-shifter.js, applied to the parsed nodes *)
IsCueNode(node) == node.type = "cue"

(* Variant: map before filter, so a cue is numbered by the place of its    *)
(* node among all nodes.                                                   *)
parseSRTNumberingNodes(nodes) ==
    LET numbered == [i \in 1..Len(nodes) |-> [type |-> nodes[i].type,
                                              data |-> nodes[i].data, at |-> i]]
        kept == SelectSeq(numbered, IsCueNode)
    IN  [i \in 1..Len(kept) |->
           [index |-> kept[i].at,
            start |-> kept[i].data.start,
            end |-> kept[i].data.end,
            text |-> kept[i].data.text]]

parseSRT(nodes) ==
    LET kept == SelectSeq(nodes, IsCueNode)
    IN  [i \in 1..Len(kept) |->
           [index |-> i,                       \* index + 1, index from 0
            start |-> kept[i].data.start,
            end |-> kept[i].data.end,
            text |-> kept[i].data.text]]

(* parseSRT of the desktop main process *)
ipcParseSRT(nodes) ==
    LET kept == SelectSeq(nodes, IsCueNode)
    IN  [i \in 1..Len(kept) |->
           [index |-> i,
            start |-> kept[i].data.start,
            end |-> kept[i].data.end,
            text |-> kept[i].data.text]]

(* shiftTime of the desktop main process, on cue values *)
ipcShiftTime(vals, off, s, e) ==
    LET partial == s # Null /\ e # Null
    IN  [i \in 1..Len(vals) |->
           LET cue == vals[i]
               inRange == ~partial
                          \/ (cue.start >= Val(s) /\ cue.start <= Val(e))
               newStart == Max(0, cue.start + off)
               newEnd == Max(0, cue.end + off)
           IN  IF ~inRange THEN cue
               ELSE [cue EXCEPT !.start = newStart,
                                !.end = Max(newStart, newEnd)]]

(* formatTimestamp of the desktop main process *)
ipcFormatTimestamp(ms) ==
    LET hours == ms \div 3600000
        minutes == (ms % 3600000) \div 60000
        seconds == (ms % 60000) \div 1000
        milliseconds == ms % 1000
    IN  padStart(toString(hours), 2) \o <<":">>
        \o padStart(toString(minutes), 2) \o <<":">>
        \o padStart(toString(seconds), 2) \o <<",">>
        \o padStart(toString(milliseconds), 3)

(* cues.map(cue => ({ index, start: cue.startMs, end: cue.endMs, text })) *)
parsedCuesOf(list) ==
    [i \in 1..Len(list) |->
       [index |-> list[i].index,
        start |-> list[i].startMs,
        end |-> list[i].endMs,
        text |-> list[i].text]]

(* The cue list of an HTTP response *)
responseCues(cs) ==
    [i \in 1..Len(cs) |->
       [index |-> cs[i].index,
        start |-> formatTimestamp(cs[i].start),
        end |-> formatTimestamp(cs[i].end),
        startMs |-> cs[i].start,
        endMs |-> cs[i].end,
        text |-> cs[i].text]]

(* The cue list of an IPC result *)
ipcResponseCues(cs) ==
    [i \in 1..Len(cs) |->
       [index |-> cs[i].index,
        start |-> ipcFormatTimestamp(cs[i].start),
        end |-> ipcFormatTimestamp(cs[i].end),
        startMs |-> cs[i].start,
        endMs |-> cs[i].end,
        text |-> cs[i].text]]

(* A heap holding exactly one collection: its cues, then the array *)
HeapOf(vals) == vals \o << [i \in 1..Len(vals) |-> i] >>

(* shiftTime as the route calls it: on fresh objects, result read back *)
shiftTimeOf(parsedCues, off, s, e) ==
    LET h == HeapOf(parsedCues)
        r == shiftTime(h, Len(h), off, s, e)
    IN  CueVals(r.heap, r.ref)

(* mode || 'full' *)
modeOrFull(mode) ==
    IF mode.t = "undefined" \/ mode.v = "" THEN Str("full") ELSE mode

(* Variant: the check startMs > endMs is missing *)
httpShiftNoRangeCheck(body) ==
    IF body.cues.t # "array" \/ body.cues.elems = <<>> THEN
        [response |-> [status |-> 400,
                       body |-> [error |-> "Invalid cues",
                                 message |-> "No subtitle data provided"]],
         cues |-> body.cues]
    ELSE IF body.offsetMs.t # "number" THEN
        [response |-> [status |-> 400,
                       body |-> [error |-> "Invalid offset",
                                 message |-> "Please enter a valid time offset in milliseconds"]],
         cues |-> body.cues]
    ELSE
        LET parsedCues == parsedCuesOf(body.cues.elems)
            startMs == parseTimestamp(body.startTime)
            endMs == parseTimestamp(body.endTime)
            shiftedCues ==
                IF body.mode = Str("partial")
                THEN shiftTimeOf(parsedCues, body.offsetMs.n,
                                 Some(startMs), Some(endMs))
                ELSE shiftTimeOf(parsedCues, body.offsetMs.n, Null, Null)
        IN  [response |-> [status |-> 200,
                           body |-> [success |-> TRUE,
                                     offsetMs |-> body.offsetMs.n,
                                     mode |-> modeOrFull(body.mode),
                                     cues |-> responseCues(shiftedCues)]],
             cues |-> body.cues]

(* Variant: a window bound of a partial request that matches no pattern   *)
(* is refused with 400.                                                    *)
httpShiftRefusingMalformed(body) ==
    IF body.cues.t # "array" \/ body.cues.elems = <<>> THEN
        [response |-> [status |-> 400,
                       body |-> [error |-> "Invalid cues",
                                 message |-> "No subtitle data provided"]],
         cues |-> body.cues]
    ELSE IF body.offsetMs.t # "number" THEN
        [response |-> [status |-> 400,
                       body |-> [error |-> "Invalid offset",
                                 message |-> "Please enter a valid time offset in milliseconds"]],
         cues |-> body.cues]
    ELSE
        LET parsedCues == parsedCuesOf(body.cues.elems)
            startMs == parseTimestamp(body.startTime)
            endMs == parseTimestamp(body.endTime)
            matches(v) ==
                /\ v.t = "string"
                /\ \/ fullMatch(trim(v.v)) \/ hmsMatch(trim(v.v))
                   \/ msMatch(trim(v.v)) \/ secondsMatch(trim(v.v))
        IN  IF body.mode = Str("partial")
               /\ ~(matches(body.startTime) /\ matches(body.endTime)) THEN
                [response |-> [status |-> 400,
                               body |-> [error |-> "Invalid time",
                                         message |-> "Please enter a valid time"]],
                 cues |-> body.cues]
            ELSE IF body.mode = Str("partial") /\ startMs > endMs THEN
                [response |-> [status |-> 400,
                               body |-> [error |-> "Invalid range",
                                         message |-> "Start time must be before end time"]],
                 cues |-> body.cues]
            ELSE
                LET shiftedCues ==
                        IF body.mode = Str("partial")
                        THEN shiftTimeOf(parsedCues, body.offsetMs.n,
                                         Some(startMs), Some(endMs))
                        ELSE shiftTimeOf(parsedCues, body.offsetMs.n, Null, Null)
                IN  [response |-> [status |-> 200,
                                   body |-> [success |-> TRUE,
                                             offsetMs |-> body.offsetMs.n,
                                             mode |-> modeOrFull(body.mode),
                                             cues |-> responseCues(shiftedCues)]],
                     cues |-> body.cues]

(* router.post('/shift'): the answer, and req.body.cues as the handler     *)
(* leaves them                                                             *)
httpShift(body) ==
    IF body.cues.t # "array" \/ body.cues.elems = <<>> THEN
        [response |-> [status |-> 400,
                       body |-> [error |-> "Invalid cues",
                                 message |-> "No subtitle data provided"]],
         cues |-> body.cues]
    ELSE IF body.offsetMs.t # "number" THEN
        [response |-> [status |-> 400,
                       body |-> [error |-> "Invalid offset",
                                 message |-> "Please enter a valid time offset in milliseconds"]],
         cues |-> body.cues]
    ELSE
        LET parsedCues == parsedCuesOf(body.cues.elems)
            startMs == parseTimestamp(body.startTime)
            endMs == parseTimestamp(body.endTime)
        IN  IF body.mode = Str("partial") /\ startMs > endMs THEN
                [response |-> [status |-> 400,
                               body |-> [error |-> "Invalid range",
                                         message |-> "Start time must be before end time"]],
                 cues |-> body.cues]
            ELSE
                LET shiftedCues ==
                        IF body.mode = Str("partial")
                        THEN shiftTimeOf(parsedCues, body.offsetMs.n,
                                         Some(startMs), Some(endMs))
                        ELSE shiftTimeOf(parsedCues, body.offsetMs.n, Null, Null)
                IN  [response |-> [status |-> 200,
                                   body |-> [success |-> TRUE,
                                             offsetMs |-> body.offsetMs.n,
                                             mode |-> modeOrFull(body.mode),
                                             cues |-> responseCues(shiftedCues)]],
                     cues |-> body.cues]

(* ipcMain.handle('shift-subtitles'): a throw inside try becomes           *)
(* { error: true, message }; cues.map throws when cues is not an array.    *)
ipcShift(data) ==
    IF data.cues.t # "array" THEN
        [response |-> [error |-> TRUE, message |-> "TypeError"],
         cues |-> data.cues]
    ELSE
        LET parsedCues == parsedCuesOf(data.cues.elems)
            startMs == ipcParseTimestamp(data.startTime)
            endMs == ipcParseTimestamp(data.endTime)
        IN  IF data.mode = Str("partial") /\ startMs > endMs THEN
                [response |-> [error |-> TRUE,
                               message |-> "Start time must be before end time"],
                 cues |-> data.cues]
            ELSE
                LET shiftedCues ==
                        IF data.mode = Str("partial")
                        THEN ipcShiftTime(parsedCues, data.offsetMs.n,
                                          Some(startMs), Some(endMs))
                        ELSE ipcShiftTime(parsedCues, data.offsetMs.n, Null, Null)
                IN  [response |-> [success |-> TRUE,
                                   offsetMs |-> data.offsetMs.n,
                                   mode |-> modeOrFull(data.mode),
                                   cues |-> ipcResponseCues(shiftedCues)],
                     cues |-> data.cues]

(* String.prototype.toLowerCase, on the letters of the file names used *)
toLowerCase(t) ==
    [i \in 1..Len(t) |->
       IF t[i] = "S" THEN "s" ELSE IF t[i] = "R" THEN "r"
       ELSE IF t[i] = "T" THEN "t" ELSE IF t[i] = "A" THEN "a" ELSE t[i]]

(* String.prototype.endsWith *)
endsWith(t, suffix) ==
    /\ Len(t) >= Len(suffix)
    /\ SubSeq(t, Len(t) - Len(suffix) + 1, Len(t)) = suffix

DotSrt == <<".", "s", "r", "t">>

(* upload.fileFilter: file.originalname.toLowerCase().endsWith('.srt') *)
fileFilter(originalname) == endsWith(toLowerCase(originalname), DotSrt)

(* The metadata and cue list of a successful upload answer *)
uploadSuccess(filename, cs) ==
    [success |-> TRUE,
     filename |-> filename,
     cueCount |-> Len(cs),
     duration |-> [start |-> formatTimestamp(cs[1].start),
                   end |-> formatTimestamp(cs[Len(cs)].end),
                   startMs |-> cs[1].start,
                   endMs |-> cs[Len(cs)].end],
     cues |-> responseCues(cs)]

(* Variant: the test cues.length === 0 is missing; reading cues[0].start   *)
(* of an empty list then throws and the catch answers 500.                 *)
httpUploadNoEmptyCheck(up) ==
    IF up.multerError = "LIMIT_UNEXPECTED_FILE" THEN
        [status |-> 400, body |-> [error |-> "Upload error",
                                   message |-> "Unexpected field"]]
    ELSE IF up.hasFile /\ ~fileFilter(up.originalname) THEN
        [status |-> 400, body |-> [error |-> "Invalid file type",
                                   message |-> "Please upload an SRT file (.srt)"]]
    ELSE IF up.hasFile /\ up.multerError = "LIMIT_FILE_SIZE" THEN
        [status |-> 400, body |-> [error |-> "File too large",
                                   message |-> "File size must be less than 10MB"]]
    ELSE IF ~up.hasFile THEN
        [status |-> 400, body |-> [error |-> "No file uploaded",
                                   message |-> "Please select an SRT file to upload"]]
    ELSE IF up.content.throws \/ parseSRT(up.content.nodes) = <<>> THEN
        [status |-> 500, body |-> [error |-> "Parse error",
                                   message |-> "Failed to parse the SRT file. Please check the file format."]]
    ELSE
        [status |-> 200,
         body |-> uploadSuccess(up.originalname, parseSRT(up.content.nodes))]

(* router.post('/upload') with the multer middleware before it and the     *)
(* error middleware after it                                               *)
httpUpload(up) ==
    IF up.multerError = "LIMIT_UNEXPECTED_FILE" THEN
        [status |-> 400, body |-> [error |-> "Upload error",
                                   message |-> "Unexpected field"]]
    ELSE IF up.hasFile /\ ~fileFilter(up.originalname) THEN
        [status |-> 400, body |-> [error |-> "Invalid file type",
                                   message |-> "Please upload an SRT file (.srt)"]]
    ELSE IF up.hasFile /\ up.multerError = "LIMIT_FILE_SIZE" THEN
        [status |-> 400, body |-> [error |-> "File too large",
                                   message |-> "File size must be less than 10MB"]]
    ELSE IF ~up.hasFile THEN
        [status |-> 400, body |-> [error |-> "No file uploaded",
                                   message |-> "Please select an SRT file to upload"]]
    ELSE IF up.content.throws THEN
        [status |-> 500, body |-> [error |-> "Parse error",
                                   message |-> "Failed to parse the SRT file. Please check the file format."]]
    ELSE
        LET cs == parseSRT(up.content.nodes)
        IN  IF Len(cs) = 0 THEN
                [status |-> 400,
                 body |-> [error |-> "Invalid SRT file",
                           message |-> "The file appears to be empty or not in valid SRT format"]]
            ELSE
                [status |-> 200, body |-> uploadSuccess(up.originalname, cs)]

(* text.split(sep).pop(): what follows the last separator *)
RECURSIVE lastSegment(_, _)
lastSegment(t, sep) ==
    IF \E i \in 1..Len(t) : t[i] = sep
    THEN lastSegment(SubSeq(t, (CHOOSE i \in 1..Len(t) : t[i] = sep) + 1, Len(t)), sep)
    ELSE t

(* ipcMain.handle('upload-file') *)
ipcUpload(inp) ==
    IF ~inp.hasFileData /\ (inp.dialog.canceled \/ inp.dialog.filePaths = <<>>) THEN
        [canceled |-> TRUE]
    ELSE IF ~inp.hasFileData /\ inp.readFails THEN
        [error |-> TRUE, message |-> "ENOENT"]
    ELSE
        LET filename ==
                IF inp.hasFileData THEN inp.filename
                ELSE lastSegment(lastSegment(inp.dialog.filePaths[1], "/"), "\\")
        IN  IF inp.content.throws THEN
                [error |-> TRUE, message |-> "parseSync error"]
            ELSE
                LET cs == ipcParseSRT(inp.content.nodes)
                IN  IF Len(cs) = 0 THEN
                        [error |-> TRUE,
                         message |-> "The file appears to be empty or not in valid SRT format"]
                    ELSE
                        [success |-> TRUE,
                         filename |-> filename,
                         cueCount |-> Len(cs),
                         duration |-> [start |-> ipcFormatTimestamp(cs[1].start),
                                       end |-> ipcFormatTimestamp(cs[Len(cs)].end),
                                       startMs |-> cs[1].start,
                                       endMs |-> cs[Len(cs)].end],
                         cues |-> ipcResponseCues(cs)]

(* stringifySRT: the cue nodes handed to stringifySync of the subtitle     *)
(* package with { format: 'SRT' }; the text the package makes of them is   *)
(* not part of the program.                                                *)
stringifySRT(cs) ==
    [format |-> "SRT",
     nodes |-> [i \in 1..Len(cs) |->
                  [type |-> "cue",
                   data |-> [start |-> cs[i].start,
                             end |-> cs[i].end,
                             text |-> cs[i].text]]]]

(* String.prototype.indexOf, from 1; 0 when pattern does not occur *)
indexOf(t, pattern) ==
    LET places == {i \in 1..(Len(t) - Len(pattern) + 1) :
                      SubSeq(t, i, i + Len(pattern) - 1) = pattern}
    IN  IF places = {} THEN 0
        ELSE CHOOSE i \in places : \A j \in places : i <= j

(* String.prototype.replace with a string pattern: the first occurrence *)
replace(t, pattern, replacement) ==
    LET i == indexOf(t, pattern)
    IN  IF i = 0 THEN t
        ELSE SubSeq(t, 1, i - 1) \o replacement \o SubSeq(t, i + Len(pattern), Len(t))

DashShiftedDotSrt == <<"-", "s", "h", "i", "f", "t", "e", "d", ".", "s", "r", "t">>
ShiftedSubtitlesDotSrt ==
    <<"s", "h", "i", "f", "t", "e", "d", "-", "s", "u", "b", "t", "i", "t", "l", "e", "s",
      ".", "s", "r", "t">>

(* A value that counts as false in a condition *)
falsy(v) == v.t \in {"undefined", "null"} \/ (v.t = "string" /\ v.v = <<>>)

(* filename ? filename.replace('.srt', '-shifted.srt') : 'shifted-subtitles.srt' *)
outputFilenameOf(filename) ==
    IF falsy(filename) THEN ShiftedSubtitlesDotSrt
    ELSE replace(filename.v, DotSrt, DashShiftedDotSrt)

(* router.post('/download') *)
httpDownload(body) ==
    IF body.cues.t # "array" \/ body.cues.elems = <<>> THEN
        [status |-> 400, body |-> [error |-> "Invalid cues",
                                   message |-> "No subtitle data provided"]]
    ELSE
        [status |-> 200,
         contentType |-> "application/x-subrip",
         attachment |-> outputFilenameOf(body.filename),
         content |-> stringifySRT(parsedCuesOf(body.cues.elems))]

(* ipcMain.handle('download-file'); save is what the save dialog and       *)
(* writeFile do: [canceled, filePath, writeFails]                          *)
ipcDownload(data, save) ==
    IF data.cues.t # "array" THEN
        [response |-> [error |-> TRUE, message |-> "TypeError"],
         defaultPath |-> Undefined, written |-> Undefined]
    ELSE
        LET srtContent == stringifySRT(parsedCuesOf(data.cues.elems))
            outputFilename == outputFilenameOf(data.filename)
        IN  IF save.canceled THEN
                [response |-> [canceled |-> TRUE],
                 defaultPath |-> Str(outputFilename), written |-> Undefined]
            ELSE IF save.writeFails THEN
                [response |-> [error |-> TRUE, message |-> "EACCES"],
                 defaultPath |-> Str(outputFilename), written |-> Undefined]
            ELSE
                [response |-> [success |-> TRUE, filePath |-> save.filePath],
                 defaultPath |-> Str(outputFilename),
                 written |-> [path |-> save.filePath, content |-> srtContent]]

----------------------------------------------------------------------------
(* Input collections: cues in file order, index = position, any start/end  *)
(* (a cue read from a file may have end < start).                          *)

CueAt(i) == [index : {i}, start : Times, end : Times, text : {TextAt(i)}]

RECURSIVE CueSeqs(_)
CueSeqs(n) ==
    IF n = 0 THEN {<<>>}
    ELSE {Append(cs, c) : cs \in CueSeqs(n - 1), c \in CueAt(n)}

Collections == UNION {CueSeqs(n) : n \in 0..MaxLen}

(* Inputs of the handlers: times in whole seconds; cues as an upload of a  *)
(* well-formed file answers them: lasting 0 or 1 second, starts in file    *)
(* order.  Offsets: none, one second either way, and the largest ones.     *)
ApiTimes == {t * 1000 : t \in Times}
ApiOffsets == {0 - MaxOffset * 1000, 0 - 1000, 0, 1000, MaxOffset * 1000}
ApiSpans == {p \in ApiTimes \X ApiTimes : p[2] = p[1] \/ p[2] = p[1] + 1000}
InFileOrder(cs) ==
    \A i \in 1..(Len(cs) - 1) : cs[i].startMs <= cs[i + 1].startMs

BodyCueAt(i) ==
    {[index |-> i,
      start |-> formatTimestamp(p[1]),
      end |-> formatTimestamp(p[2]),
      startMs |-> p[1],
      endMs |-> p[2],
      text |-> TextAt(i)] : p \in ApiSpans}

RECURSIVE BodyCueSeqs(_)
BodyCueSeqs(n) ==
    IF n = 0 THEN {<<>>}
    ELSE {Append(cs, c) : cs \in BodyCueSeqs(n - 1), c \in BodyCueAt(n)}

BodyCollections ==
    {cs \in UNION {BodyCueSeqs(n) : n \in 0..MaxLen} : InFileOrder(cs)}

(* Window bound texts: absent, empty, malformed, the canonical form of     *)
(* two times, and one text of each other accepted form.                    *)
WindowTexts ==
    {Undefined, Str(<<>>), Str(<<"x">>),
     Str(formatTimestamp(1000)), Str(formatTimestamp(2000)),
     Str(<<"0", ":", "0", "0", ":", "0", "2">>),
          Str(<<"0", ":", "0", "1">>),
          Str(<<"2">>),
          Str(<<" ", "0", "0", ":", "0", "0", ":", "0", "1", ".", "0", "0", "0", " ">>)}

Modes == {Undefined, Str("partial"), Str("full"), Str("fast")}

HttpCuesValues == {Undefined, Str(<<"x">>)} \cup {Arr(cs) : cs \in BodyCollections}
HttpOffsetValues == {Undefined, Str(<<"1">>)} \cup {Num(k) : k \in ApiOffsets}
IpcCuesValues == {Undefined} \cup {Arr(cs) : cs \in BodyCollections}
IpcOffsetValues == {Num(k) : k \in ApiOffsets}

(* The window texts are sent with a partial request only *)
ShiftBodies(cuesValues, offsetValues) ==
    {[cues |-> c, offsetMs |-> o, mode |-> m,
      startTime |-> Undefined, endTime |-> Undefined] :
        c \in cuesValues, o \in offsetValues, m \in Modes \ {Str("partial")}}
    \cup
    {[cues |-> c, offsetMs |-> o, mode |-> Str("partial"),
      startTime |-> st, endTime |-> et] :
        c \in cuesValues, o \in offsetValues, st \in WindowTexts, et \in WindowTexts}

(* What parseSync makes of a file: header nodes and cue nodes *)
NodeAt(i) ==
    {[type |-> "header", data |-> "WEBVTT"]}
    \cup {[type |-> "cue", data |-> [start |-> p[1], end |-> p[2], text |-> TextAt(i)]] :
            p \in ApiSpans}

RECURSIVE NodeSeqs(_)
NodeSeqs(n) ==
    IF n = 0 THEN {<<>>}
    ELSE {Append(ns, nd) : ns \in NodeSeqs(n - 1), nd \in NodeAt(n)}

Contents ==
    {[throws |-> TRUE, nodes |-> <<>>]}
    \cup {[throws |-> FALSE, nodes |-> ns] :
            ns \in UNION {NodeSeqs(n) : n \in 0..MaxLen}}

FileNames ==
    {<<"a", ".", "s", "r", "t">>,
     <<"a", ".", "S", "R", "T">>,
     <<"a", ".", "t", "x", "t">>,
     <<"a", ".", "s", "r", "t", ".", "s", "r", "t">>}

FilePaths ==
    {<<"/", "d", "/", "a", ".", "s", "r", "t">>,
     <<"C", ":", "\\", "d", "\\", "a", ".", "s", "r", "t">>}

NoContent == [throws |-> FALSE, nodes |-> <<>>]

HttpUploads ==
    {[hasFile |-> FALSE, originalname |-> <<>>, multerError |-> e,
      content |-> NoContent] : e \in {"none", "LIMIT_UNEXPECTED_FILE"}}
    \cup
    {[hasFile |-> TRUE, originalname |-> f, multerError |-> e, content |-> c] :
        f \in FileNames, e \in {"none", "LIMIT_FILE_SIZE"}, c \in Contents}

NoDialog == [canceled |-> TRUE, filePaths |-> <<>>]

IpcUploads ==
    {[hasFileData |-> TRUE, filename |-> f, dialog |-> NoDialog,
      readFails |-> FALSE, content |-> c] : f \in FileNames, c \in Contents}
    \cup
    {[hasFileData |-> FALSE, filename |-> <<>>, dialog |-> d,
      readFails |-> FALSE, content |-> NoContent] :
        d \in {NoDialog, [canceled |-> FALSE, filePaths |-> <<>>]}}
    \cup
    {[hasFileData |-> FALSE, filename |-> <<>>,
      dialog |-> [canceled |-> FALSE, filePaths |-> <<path>>],
      readFails |-> TRUE, content |-> NoContent] : path \in FilePaths}
    \cup
    {[hasFileData |-> FALSE, filename |-> <<>>,
      dialog |-> [canceled |-> FALSE, filePaths |-> <<path>>],
      readFails |-> FALSE, content |-> c] : path \in FilePaths, c \in Contents}

(* Download requests: the filename is what an upload answered, or absent *)
DownloadNames == {Undefined, JsNull, Str(<<>>)} \cup {Str(f) : f \in FileNames}
HttpDownloads ==
    {[cues |-> c, filename |-> f] : c \in HttpCuesValues, f \in DownloadNames}
SaveDialogs ==
    {[canceled |-> TRUE, filePath |-> <<>>, writeFails |-> FALSE]}
    \cup {[canceled |-> FALSE, filePath |-> path, writeFails |-> w] :
             path \in FilePaths, w \in BOOLEAN}
IpcDownloads ==
    {[cues |-> c, filename |-> f] : c \in IpcCuesValues, f \in DownloadNames}

NoRequest == [kind |-> "none"]

(* The server process between requests: no request in any slot, and        *)
(* nothing in module-level variables (api.js declares router and upload    *)
(* only, the main process mainWindow only).                                *)
Slots == 1..MaxClients
ServerIdle ==
    [pending |-> [s \in Slots |-> NoRequest],
     answer |-> [s \in Slots |-> NoRequest],
     memory |-> <<>>]

(* Requests of several clients: two files, shifted, uploaded, downloaded *)
MakeCue(i, startMs, endMs) ==
    [index |-> i, start |-> formatTimestamp(startMs), end |-> formatTimestamp(endMs),
     startMs |-> startMs, endMs |-> endMs, text |-> TextAt(i)]
FileOne == Arr(<<MakeCue(1, 0, 1000)>>)
FileTwo == Arr(<<MakeCue(1, 1000, 1000), MakeCue(2, 2000, 3000)>>)
ServerRequests ==
    {[kind |-> k,
      body |-> [cues |-> c, offsetMs |-> Num(o), mode |-> Str("full"),
                startTime |-> Undefined, endTime |-> Undefined]] :
        k \in {"http-shift", "ipc-shift"}, c \in {FileOne, FileTwo}, o \in {1000, 0 - 1000}}
    \cup
    {[kind |-> k,
      body |-> [cues |-> FileTwo, offsetMs |-> Num(1000), mode |-> Str("partial"),
                startTime |-> Str(<<"x">>), endTime |-> Str(formatTimestamp(1000))]] :
        k \in {"http-shift", "ipc-shift"}}
    \cup
    {[kind |-> "http-upload",
      body |-> [hasFile |-> TRUE, originalname |-> <<"a", ".", "s", "r", "t">>,
                multerError |-> "none",
                content |-> [throws |-> FALSE, nodes |-> ns]]] :
        ns \in {<<>>,
                <<[type |-> "cue", data |-> [start |-> 0, end |-> 1000, text |-> TextAt(1)]]>>,
                <<[type |-> "cue", data |-> [start |-> 1000, end |-> 2000, text |-> TextAt(2)]]>>}}
    \cup
    {[kind |-> k, body |-> [cues |-> c, filename |-> f]] :
        k \in {"http-download"}, c \in {FileOne, FileTwo, Arr(<<>>)},
        f \in {Undefined, Str(<<"a", ".", "s", "r", "t">>)}}

(* The page before its script has run *)
PageNotLoaded == [loaded |-> FALSE]

Init ==
    /\ heap = <<>>
    /\ heap0 = <<>>
    /\ cues = 0
    /\ offsetMs = 0
    /\ startTimeMs = Null
    /\ endTimeMs = Null
    /\ result = 0
    /\ origVals = <<>>
    /\ pc = "idle"
    /\ req = NoRequest
    /\ res = NoRequest
    /\ bodyCues = Undefined
    /\ apiPc = "idle"
    /\ codec = [op |-> "none"]
    /\ server = ServerIdle
    /\ ui = PageNotLoaded

(* A caller holds a collection and calls shiftTime(cues, offsetMs, s, e) *)
CallShiftTime ==
    /\ pc = "idle"
    /\ \E vals \in Collections, off \in Offsets, w \in Windows :
         LET h == HeapOf(vals)
             s == w[1]
             e == w[2]
             r == shiftTime(h, Len(h), off, s, e)
         IN  /\ heap0' = h
             /\ cues' = Len(h)
             /\ offsetMs' = off
             /\ startTimeMs' = s
             /\ endTimeMs' = e
             /\ heap' = r.heap
             /\ result' = r.ref
             /\ origVals' = vals
    /\ pc' = "returned"
    /\ UNCHANGED <<apiVars, codec, server, ui>>

(* shiftTime(shiftTime(cues, +k), -k): the result of a full-mode call is   *)
(* shifted back by the opposite offset, again in full mode.                *)
CallInverse ==
    /\ pc = "returned"
    /\ ~isPartialShift(startTimeMs, endTimeMs)
    /\ LET r == shiftTime(heap, result, 0 - offsetMs, Null, Null)
       IN  /\ heap0' = heap
           /\ cues' = result
           /\ offsetMs' = 0 - offsetMs
           /\ startTimeMs' = Null
           /\ endTimeMs' = Null
           /\ heap' = r.heap
           /\ result' = r.ref
    /\ pc' = "inverted"
    /\ UNCHANGED origVals
    /\ UNCHANGED <<apiVars, codec, server, ui>>

(* The caller drops the collections: nothing outlives a call *)
Discard ==
    /\ pc \in {"returned", "inverted"}
    /\ heap' = <<>>
    /\ heap0' = <<>>
    /\ cues' = 0
    /\ offsetMs' = 0
    /\ startTimeMs' = Null
    /\ endTimeMs' = Null
    /\ result' = 0
    /\ origVals' = <<>>
    /\ pc' = "idle"
    /\ UNCHANGED <<apiVars, codec, server, ui>>

Next == CallShiftTime \/ CallInverse \/ Discard

Spec == Init /\ [][Next]_vars

----------------------------------------------------------------------------
(* The handlers: each serves one request from its arrival to its answer *)

HttpShift ==
    /\ apiPc = "idle"
    /\ \E body \in ShiftBodies(HttpCuesValues, HttpOffsetValues) :
         LET r == httpShift(body)
         IN  /\ req' = [kind |-> "http-shift", body |-> body]
             /\ res' = r.response
             /\ bodyCues' = r.cues
    /\ apiPc' = "responded"
    /\ UNCHANGED <<engineVars, codec, server, ui>>

IpcShift ==
    /\ apiPc = "idle"
    /\ \E data \in ShiftBodies(IpcCuesValues, IpcOffsetValues) :
         LET r == ipcShift(data)
         IN  /\ req' = [kind |-> "ipc-shift", body |-> data]
             /\ res' = r.response
             /\ bodyCues' = r.cues
    /\ apiPc' = "responded"
    /\ UNCHANGED <<engineVars, codec, server, ui>>

HttpUpload ==
    /\ apiPc = "idle"
    /\ \E up \in HttpUploads :
         /\ req' = [kind |-> "http-upload", body |-> up]
         /\ res' = httpUpload(up)
    /\ bodyCues' = Undefined
    /\ apiPc' = "responded"
    /\ UNCHANGED <<engineVars, codec, server, ui>>

IpcUpload ==
    /\ apiPc = "idle"
    /\ \E inp \in IpcUploads :
         /\ req' = [kind |-> "ipc-upload", body |-> inp]
         /\ res' = ipcUpload(inp)
    /\ bodyCues' = Undefined
    /\ apiPc' = "responded"
    /\ UNCHANGED <<engineVars, codec, server, ui>>

HttpDownload ==
    /\ apiPc = "idle"
    /\ \E body \in HttpDownloads :
         /\ req' = [kind |-> "http-download", body |-> body]
         /\ res' = httpDownload(body)
    /\ bodyCues' = Undefined
    /\ apiPc' = "responded"
    /\ UNCHANGED <<engineVars, codec, server, ui>>

IpcDownload ==
    /\ apiPc = "idle"
    /\ \E data \in IpcDownloads, save \in SaveDialogs :
         /\ req' = [kind |-> "ipc-download", body |-> data, save |-> save]
         /\ res' = ipcDownload(data, save)
    /\ bodyCues' = Undefined
    /\ apiPc' = "responded"
    /\ UNCHANGED <<engineVars, codec, server, ui>>

(* The answer is delivered; the server keeps nothing of the request *)
ApiDone ==
    /\ apiPc = "responded"
    /\ req' = NoRequest
    /\ res' = NoRequest
    /\ bodyCues' = Undefined
    /\ apiPc' = "idle"
    /\ UNCHANGED <<engineVars, codec, server, ui>>

NextApi ==
    \/ HttpShift \/ IpcShift \/ HttpUpload \/ IpcUpload
    \/ HttpDownload \/ IpcDownload \/ ApiDone

SpecApi == Init /\ [][NextApi]_vars

----------------------------------------------------------------------------
(* One request data object given to both shift handlers: what the UI sends *)
(* to POST /api/shift in the browser, it sends to 'shift-subtitles' in the *)
(* desktop build.                                                          *)
ShiftOnBothPaths ==
    /\ apiPc = "idle"
    /\ \E data \in ShiftBodies(IpcCuesValues, IpcOffsetValues) :
         /\ req' = [kind |-> "both-shift", body |-> data]
         /\ res' = [http |-> httpShift(data).response,
                    ipc |-> ipcShift(data).response]
         /\ bodyCues' = data.cues
    /\ apiPc' = "responded"
    /\ UNCHANGED <<engineVars, codec, server, ui>>

NextPaths == ShiftOnBothPaths \/ ApiDone

SpecPaths == Init /\ [][NextPaths]_vars

----------------------------------------------------------------------------
(* A server process with several requests under way.  A request arrives    *)
(* (its body is parsed into its own req object), its handler runs, its     *)
(* answer is sent; the steps of different requests interleave freely.      *)

(* Variant: the handler reads a module-level variable that every arriving  *)
(* request of its route overwrites, the body of the request in the highest *)
(* slot.                                                                   *)
inputOfSharedBody(pending, slot) ==
    LET same == {s \in Slots : pending[s] # NoRequest /\ pending[s].kind = pending[slot].kind}
    IN  pending[CHOOSE s \in same : \A q \in same : q <= s].body

(* const { ... } = req.body: the handler reads its own request *)
inputOf(pending, slot) == pending[slot].body

(* The answer of the route's handler *)
answerOf(kind, body) ==
    CASE kind = "http-shift" -> httpShift(body).response
      [] kind = "ipc-shift" -> ipcShift(body).response
      [] kind = "http-upload" -> httpUpload(body)
      [] kind = "http-download" -> httpDownload(body)

Arrive(slot) ==
    /\ server.pending[slot] = NoRequest
    /\ \E r \in ServerRequests :
         server' = [server EXCEPT !.pending[slot] = r]
    /\ UNCHANGED <<engineVars, apiVars, codec, ui>>

(* The handler runs from its first line to its answer; it assigns no       *)
(* module-level variable.                                                  *)
Handle(slot) ==
    /\ server.pending[slot] # NoRequest
    /\ server.answer[slot] = NoRequest
    /\ server' = [server EXCEPT
                    !.answer[slot] = answerOf(server.pending[slot].kind,
                                              inputOf(server.pending, slot))]
    /\ UNCHANGED <<engineVars, apiVars, codec, ui>>

(* The answer is sent; req and res go out of scope *)
Deliver(slot) ==
    /\ server.answer[slot] # NoRequest
    /\ server' = [server EXCEPT !.pending[slot] = NoRequest,
                                !.answer[slot] = NoRequest]
    /\ UNCHANGED <<engineVars, apiVars, codec, ui>>

NextServer == \E slot \in Slots : Arrive(slot) \/ Handle(slot) \/ Deliver(slot)

SpecServer == Init /\ [][NextServer]_vars

----------------------------------------------------------------------------
(* POST /api/shift up to its call of shiftTime, for every kind of number a *)
(* JSON body can carry as offsetMs: 1.5 and 1e999 are JSON numbers.        *)

AnyOffsetValues ==
    HttpOffsetValues \cup {JsNull, Infinity, Half(3), Half(0 - 1)}

(* Lines 92-135: which answer refuses the request, if any, and the offset  *)
(* shiftTime is called with, if it is called.                              *)
httpShiftCall(body) ==
    IF body.cues.t # "array" \/ body.cues.elems = <<>> THEN
        [refused |-> "Invalid cues", status |-> 400, shiftTimeOffset |-> Undefined]
    ELSE IF body.offsetMs.t # "number" \/ isNaN(body.offsetMs) THEN
        [refused |-> "Invalid offset", status |-> 400, shiftTimeOffset |-> Undefined]
    ELSE IF /\ body.mode = Str("partial")
            /\ parseTimestamp(body.startTime) > parseTimestamp(body.endTime) THEN
        [refused |-> "Invalid range", status |-> 400, shiftTimeOffset |-> Undefined]
    ELSE
        [refused |-> "none", status |-> 200, shiftTimeOffset |-> body.offsetMs]

HttpShiftCall ==
    /\ apiPc = "idle"
    /\ \E body \in ShiftBodies(HttpCuesValues, AnyOffsetValues) :
         /\ req' = [kind |-> "http-shift-call", body |-> body]
         /\ res' = httpShiftCall(body)
         /\ bodyCues' = body.cues
    /\ apiPc' = "responded"
    /\ UNCHANGED <<engineVars, codec, server, ui>>

NextShiftCall == HttpShiftCall \/ ApiDone

SpecShiftCall == Init /\ [][NextShiftCall]_vars

----------------------------------------------------------------------------
(* The page script (the frontend application of src/server.js): state,     *)
(* elements, and the answers it awaits.  A handler runs up to its await in *)
(* one step and from the answer to its end in another; between the two any *)
(* other handler may run.                                                  *)

(* The files a user has: one cue, two cues, a wrong extension, no cue *)
UiFiles ==
    {[name |-> <<"a", ".", "s", "r", "t">>,
      content |-> [throws |-> FALSE,
                   nodes |-> <<[type |-> "cue",
                                data |-> [start |-> 0, end |-> 1000, text |-> TextAt(1)]]>>]],
     [name |-> <<"a", ".", "s", "r", "t", ".", "s", "r", "t">>,
      content |-> [throws |-> FALSE,
                   nodes |-> <<[type |-> "cue",
                                data |-> [start |-> 1000, end |-> 1000, text |-> TextAt(1)]],
                               [type |-> "cue",
                                data |-> [start |-> 2000, end |-> 3000, text |-> TextAt(2)]]>>]],
     [name |-> <<"a", ".", "t", "x", "t">>,
      content |-> [throws |-> FALSE, nodes |-> <<>>]],
     [name |-> <<"a", ".", "S", "R", "T">>,
      content |-> [throws |-> FALSE, nodes |-> <<>>]]}

PreviewLabel == "Preview"
DownloadLabel == "Download"
Processing == "<span class=\"spinner\"></span> Processing..."
Saving == "<span class=\"spinner\"></span> Saving..."

(* last is the handler that ended last and how it ended: refused or failed *)
(* when it called showToast(message, 'error'). A step that ends no handler *)
(* (text typed, an option clicked, a request sent) leaves NoStep.          *)
Step(handler, outcome) == [handler |-> handler, outcome |-> outcome]
NoStep == Step("none", "none")

(* const state = { ... } and the elements as the page starts *)
PageLoaded(isElectron) ==
    [loaded |-> TRUE,
     isElectron |-> isElectron,
     state |-> [file |-> JsNull, filename |-> JsNull, cues |-> <<>>,
                shiftedCues |-> <<>>, mode |-> "full", hasPreview |-> FALSE],
     fileInfo |-> FALSE,
     controlsSection |-> FALSE,
     previewBtn |-> [disabled |-> FALSE, innerHTML |-> PreviewLabel],
     downloadBtn |-> [disabled |-> TRUE, innerHTML |-> DownloadLabel],
     offsetInput |-> <<>>,
     startTime |-> <<>>,
     endTime |-> <<>>,
     last |-> NoStep,
     uploads |-> EmptyBag,
     previews |-> EmptyBag,
     downloads |-> EmptyBag]

(* init(), in the browser or in the desktop window *)
LoadPage ==
    /\ ~ui.loaded
    /\ \E isElectron \in BOOLEAN : ui' = PageLoaded(isElectron)
    /\ UNCHANGED <<engineVars, apiVars, codec, server>>

(* The answers the page awaits *)
Awaited(u) ==
    BagCardinality(u.uploads) + BagCardinality(u.previews) + BagCardinality(u.downloads)

(* The awaited answers of one kind, with one more and with one less; they  *)
(* come in any order.                                                      *)
With(tasks, task) == tasks (+) SetToBag({task})
Without(tasks, task) == tasks (-) SetToBag({task})

(* handleFileUpload(file) up to its await: a file is chosen or dropped *)
HandleFileUpload ==
    /\ ui.loaded
    /\ \E file \in UiFiles :
         IF ~endsWith(toLowerCase(file.name), DotSrt)
         THEN ui' = [ui EXCEPT !.last = Step("handleFileUpload", "refused")]
         ELSE /\ Awaited(ui) < MaxAwaited
              /\ ui' = [ui EXCEPT !.last = NoStep,
                                  !.uploads = With(@, [file |-> file])]
    /\ UNCHANGED <<engineVars, apiVars, codec, server>>

(* What the awaited upload call gives: data and whether it counts as ok *)
uploadAnswer(isElectron, file) ==
    IF isElectron
    THEN LET data == ipcUpload([hasFileData |-> TRUE, filename |-> file.name,
                                dialog |-> NoDialog, readFails |-> FALSE,
                                content |-> file.content])
         IN  [ok |-> "error" \notin DOMAIN data, data |-> data]
    ELSE LET response == httpUpload([hasFile |-> TRUE, originalname |-> file.name,
                                     multerError |-> "none", content |-> file.content])
         IN  [ok |-> response.status = 200, data |-> response.body]

(* handleFileUpload from the answer on; rejected: the read or the request  *)
(* failed and the await throws.                                            *)
FileUploadAnswered ==
    /\ ui.loaded
    /\ \E task \in BagToSet(ui.uploads), rejected \in BOOLEAN :
         LET file == task.file
             answer == uploadAnswer(ui.isElectron, file)
             data == answer.data
         IN  IF rejected \/ ~answer.ok
             THEN ui' = [ui EXCEPT !.uploads = Without(@, task),
                                   !.last = Step("handleFileUpload", "failed")]
             ELSE ui' = [ui EXCEPT !.uploads = Without(@, task),
                                   !.state.file = file,
                                   !.state.filename = Str(data.filename),
                                   !.state.cues = data.cues,
                                   !.state.shiftedCues = <<>>,
                                   !.state.hasPreview = FALSE,
                                   !.fileInfo = TRUE,                 \* updateFileInfo
                                   !.startTime = data.duration.start,
                                   !.endTime = data.duration.end,
                                   !.controlsSection = TRUE,          \* showControlsSection
                                   !.downloadBtn.disabled = TRUE,
                                   !.last = Step("handleFileUpload", "succeeded")]
    /\ UNCHANGED <<engineVars, apiVars, codec, server>>

(* resetState(): the remove button of the file info *)
ResetState ==
    /\ ui.loaded
    /\ ui.fileInfo
    /\ ui' = [ui EXCEPT !.state.file = JsNull,
                        !.state.filename = JsNull,
                        !.state.cues = <<>>,
                        !.state.shiftedCues = <<>>,
                        !.state.hasPreview = FALSE,
                        !.fileInfo = FALSE,
                        !.controlsSection = FALSE,
                        !.downloadBtn.disabled = TRUE,
                        !.offsetInput = <<>>,
                        !.last = Step("resetState", "done")]
    /\ UNCHANGED <<engineVars, apiVars, codec, server>>

(* The user types into the offset field; the mode stays the 'full' the    *)
(* page starts with, and the range fields keep what updateFileInfo wrote.  *)
OffsetTexts == {<<>>, <<"0">>, <<"5", "0", "0">>}
TypeOffset ==
    /\ ui.loaded
    /\ ui.controlsSection
    /\ \E t \in OffsetTexts :
         /\ t # ui.offsetInput
         /\ ui' = [ui EXCEPT !.offsetInput = t, !.last = NoStep]
    /\ UNCHANGED <<engineVars, apiVars, codec, server>>

(* parseInt(elements.offsetInput.value), for the texts of the offset field *)
offsetOf(t) ==
    IF t = <<>> \/ t = <<"-">> THEN NaN
    ELSE IF t[1] = "-" THEN Num(0 - parseInt(Tail(t)))
    ELSE Num(parseInt(t))

(* The text of a number written into the offset field *)
offsetText(n) == IF n < 0 THEN <<"-">> \o toString(0 - n) ELSE toString(n)

(* The quick buttons: (parseInt(value) || 0) - 500 and + 500 *)
QuickOffset ==
    /\ ui.loaded
    /\ ui.controlsSection
    /\ \E d \in {0 - 500, 500} :
         LET current == IF isNaN(offsetOf(ui.offsetInput)) THEN 0
                        ELSE offsetOf(ui.offsetInput).n
         IN  /\ offsetText(current + d) \in OffsetTexts
             /\ ui' = [ui EXCEPT !.offsetInput = offsetText(current + d),
                                 !.last = NoStep]
    /\ UNCHANGED <<engineVars, apiVars, codec, server>>

(* The data object of a shift request, as JSON.stringify or the IPC call   *)
(* copies it when the request is made                                      *)
shiftRequestOf(u) ==
    [cues |-> Arr(u.state.cues),
     offsetMs |-> offsetOf(u.offsetInput),
     mode |-> Str(u.state.mode),
     startTime |-> Str(u.startTime),
     endTime |-> Str(u.endTime)]

(* handlePreview() up to its await *)
handlePreviewStart(u) ==
    LET offset == offsetOf(u.offsetInput)
        refused == [u EXCEPT !.last = Step("handlePreview", "refused")]
    IN  IF isNaN(offset) \/ offset.n = 0 THEN refused
        ELSE IF Len(u.state.cues) = 0 THEN refused
        ELSE IF /\ u.state.mode = "partial"
                /\ (trim(u.startTime) = <<>> \/ trim(u.endTime) = <<>>) THEN refused
        ELSE [u EXCEPT !.previewBtn = [disabled |-> TRUE, innerHTML |-> Processing],
                       !.previews = With(@, [originalText |-> u.previewBtn.innerHTML,
                                               data |-> shiftRequestOf(u)]),
                       !.last = NoStep]

(* A click on the preview button, which a disabled button does not take,   *)
(* or Enter in the offset field                                            *)
HandlePreview ==
    /\ ui.loaded
    /\ ui.controlsSection
    /\ \E how \in {"click", "Enter"} :
         /\ how = "click" => ~ui.previewBtn.disabled
         /\ ui' = handlePreviewStart(ui)
    /\ Awaited(ui') <= MaxAwaited
    /\ UNCHANGED <<engineVars, apiVars, codec, server>>

(* What the awaited shift call gives *)
shiftAnswer(isElectron, data) ==
    IF isElectron
    THEN LET given == ipcShift(data).response
         IN  [ok |-> "error" \notin DOMAIN given, data |-> given]
    ELSE LET response == httpShift(data).response
         IN  [ok |-> response.status = 200, data |-> response.body]

(* renderPreview() throws a TypeError when it reads original.startMs for a *)
(* shifted cue that has no cue at its place in state.cues.                 *)
renderPreviewThrows(state) == Len(state.shiftedCues) > Len(state.cues)

(* handlePreview() from the answer on *)
previewAnswered(u, task, rejected) ==
    LET answer == shiftAnswer(u.isElectron, task.data)
        assigned == [u.state EXCEPT !.shiftedCues = answer.data.cues,
                                    !.hasPreview = TRUE]
        finally == [u EXCEPT !.previews = Without(@, task),
                             !.previewBtn = [disabled |-> FALSE,
                                             innerHTML |-> task.originalText]]
    IN  IF rejected \/ ~answer.ok
        THEN [finally EXCEPT !.last = Step("handlePreview", "failed")]
        ELSE IF renderPreviewThrows(assigned)
        THEN [finally EXCEPT !.state = assigned,
                             !.last = Step("handlePreview", "failed")]
        ELSE [finally EXCEPT !.state = assigned,
                             !.downloadBtn.disabled = FALSE,
                             !.last = Step("handlePreview", "succeeded")]

PreviewAnswered ==
    /\ ui.loaded
    /\ \E task \in BagToSet(ui.previews), rejected \in BOOLEAN :
         ui' = previewAnswered(ui, task, rejected)
    /\ UNCHANGED <<engineVars, apiVars, codec, server>>

(* Variant: the test of hasPreview and shiftedCues is missing *)
handleDownloadStartUnguarded(u) ==
    [u EXCEPT !.downloadBtn = [disabled |-> TRUE, innerHTML |-> Saving],
              !.downloads = With(@, [originalText |-> u.downloadBtn.innerHTML,
                                       data |-> [cues |-> Arr(u.state.shiftedCues),
                                                 filename |-> u.state.filename]]),
              !.last = NoStep]

(* handleDownload() up to its await *)
handleDownloadStart(u) ==
    IF ~u.state.hasPreview \/ Len(u.state.shiftedCues) = 0
    THEN [u EXCEPT !.last = Step("handleDownload", "refused")]
    ELSE [u EXCEPT !.downloadBtn = [disabled |-> TRUE, innerHTML |-> Saving],
                   !.downloads = With(@, [originalText |-> u.downloadBtn.innerHTML,
                                            data |-> [cues |-> Arr(u.state.shiftedCues),
                                                      filename |-> u.state.filename]]),
                   !.last = NoStep]

(* A click on the download button *)
HandleDownload ==
    /\ ui.loaded
    /\ ui.controlsSection
    /\ ~ui.downloadBtn.disabled
    /\ ui' = handleDownloadStart(ui)
    /\ Awaited(ui') <= MaxAwaited
    /\ UNCHANGED <<engineVars, apiVars, codec, server>>

(* handleDownload() from the answer on; save is the save dialog and the    *)
(* write of the desktop build                                              *)
downloadAnswered(u, task, rejected, save) ==
    LET finally == [u EXCEPT !.downloads = Without(@, task),
                             !.downloadBtn = [disabled |-> FALSE,
                                              innerHTML |-> task.originalText]]
        failed == [finally EXCEPT !.last = Step("handleDownload", "failed")]
        succeeded == [finally EXCEPT !.last = Step("handleDownload", "succeeded")]
    IN  IF rejected THEN failed
        ELSE IF u.isElectron
        THEN LET given == ipcDownload(task.data, save).response
             IN  IF "canceled" \in DOMAIN given
                 THEN [finally EXCEPT !.last = Step("handleDownload", "canceled")]
                 ELSE IF "error" \in DOMAIN given THEN failed
                 ELSE succeeded
        ELSE IF httpDownload(task.data).status # 200 THEN failed
        ELSE succeeded

DownloadAnswered ==
    /\ ui.loaded
    /\ \E task \in BagToSet(ui.downloads), rejected \in BOOLEAN, save \in SaveDialogs :
         /\ ~ui.isElectron => save.canceled
         /\ ui' = downloadAnswered(ui, task, rejected, save)
    /\ UNCHANGED <<engineVars, apiVars, codec, server>>

NextUi ==
    \/ LoadPage \/ HandleFileUpload \/ FileUploadAnswered \/ ResetState
    \/ TypeOffset \/ QuickOffset
    \/ HandlePreview \/ PreviewAnswered \/ HandleDownload \/ DownloadAnswered

SpecUi == Init /\ [][NextUi]_vars

----------------------------------------------------------------------------
(* The timestamp codec called on its own.  A text to parse is put together *)
(* from parts whose numeric values are known, so that what parseTimestamp  *)
(* returns can be compared with what the parts say.                        *)

Tok(txt, val) == [txt |-> txt, val |-> val]

HourToks ==
    {Tok(<<"0">>, 0), Tok(<<"7">>, 7), Tok(<<"0", "1">>, 1),
     Tok(<<"1", "2">>, 12), Tok(<<"9", "9">>, 99)}
TwoDigitToks ==
    {Tok(<<"0", "0">>, 0), Tok(<<"0", "2">>, 2), Tok(<<"5", "9">>, 59),
     Tok(<<"7", "5">>, 75)}
MilliToks ==
    {Tok(<<"0", "0", "0">>, 0), Tok(<<"4", "5", "6">>, 456),
     Tok(<<"9", "9", "9">>, 999)}
IntegerToks ==
    {Tok(<<"0">>, 0), Tok(<<"7">>, 7), Tok(<<"1", "2">>, 12),
     Tok(<<"1", "2", "3">>, 123), Tok(<<"0", "0", "1", "2">>, 12),
     Tok(<<"1", "2", "3", "4", "5", "6", "7">>, 1234567)}

(* Texts of no recognised form *)
MalformedTexts ==
    {<<"x">>, <<"n", "o", "t", " ", "a", " ", "t", "i", "m", "e">>,
     <<"1", ":", "2">>, <<"1", ":", "2", "3", "4">>,
     <<"1", "2", "3", ":", "0", "0">>, <<"1", ":", "0", "0", ":", "0">>,
     <<"x", "1", ":", "0", "2">>, <<"1", ":", "0", "2", "x">>,
     <<"-", "5">>, <<"1", ".", "5">>, <<"1", " ", "2">>, <<":">>,
     <<"0", "0", ":", "0", "0", ":", "0", "1", ";", "0", "0", "0">>,
     <<"1", ":", "0", "2", ":", "0", "3", ",", "4", "5">>,
     <<"1", "0", "0", ":", "0", "0", ":", "0", "0", ",", "0", "0", "0">>}

Paddings == {<<>>, <<" ">>, <<"\t", "\n">>}

(* What is parsed: the form, the expected value, the core text *)
ParseCores ==
    {[form |-> "full",
      ms |-> h.val * 3600000 + m.val * 60000 + sec.val * 1000 + f.val,
      core |-> h.txt \o <<":">> \o m.txt \o <<":">> \o sec.txt \o <<sep>> \o f.txt] :
        h \in HourToks, m \in TwoDigitToks, sec \in TwoDigitToks,
        f \in MilliToks, sep \in {",", "."}}
    \cup
    {[form |-> "hms",
      ms |-> h.val * 3600000 + m.val * 60000 + sec.val * 1000,
      core |-> h.txt \o <<":">> \o m.txt \o <<":">> \o sec.txt] :
        h \in HourToks, m \in TwoDigitToks, sec \in TwoDigitToks}
    \cup
    {[form |-> "ms",
      ms |-> m.val * 60000 + sec.val * 1000,
      core |-> m.txt \o <<":">> \o sec.txt] :
        m \in HourToks, sec \in TwoDigitToks}
    \cup
    {[form |-> "seconds", ms |-> n.val * 1000, core |-> n.txt] : n \in IntegerToks}
    \cup
    {[form |-> "malformed", ms |-> 0, core |-> t] : t \in MalformedTexts \cup {<<>>}}

ParseInputs ==
    {[form |-> c.form, ms |-> c.ms, input |-> Str(lead \o c.core \o trail)] :
        c \in ParseCores, lead \in Paddings, trail \in Paddings}
    \cup
    {[form |-> "not a string", ms |-> 0, input |-> v] :
        v \in {Undefined, JsNull, Num(0), Num(5), Arr(<<>>)}}

(* Times to format: around every carry, and past 24 and 100 hours *)
FormatInputs ==
    {h * 3600000 + m * 60000 + sec * 1000 + f :
        h \in {0, 1, 23, 24, 99, 100, 123}, m \in {0, 2, 59}, sec \in {0, 3, 59},
        f \in {0, 1, 456, 999}}

(* parseTimestamp(timestamp), in the HTTP build and in the desktop build *)
CallParseTimestamp ==
    /\ codec.op = "none"
    /\ \E p \in ParseInputs :
         codec' = [op |-> "parse", form |-> p.form, expected |-> p.ms,
                   input |-> p.input,
                   output |-> parseTimestamp(p.input),
                   ipcOutput |-> ipcParseTimestamp(p.input)]
    /\ UNCHANGED <<engineVars, apiVars, server, ui>>

(* formatTimestamp(ms); the text is what the UI puts in a window bound     *)
(* field, and a shift request has it parsed again.                         *)
CallFormatTimestamp ==
    /\ codec.op = "none"
    /\ \E ms \in FormatInputs :
         codec' = [op |-> "format", ms |-> ms,
                   text |-> formatTimestamp(ms),
                   back |-> parseTimestamp(Str(formatTimestamp(ms))),
                   ipcText |-> ipcFormatTimestamp(ms),
                   ipcBack |-> ipcParseTimestamp(Str(ipcFormatTimestamp(ms)))]
    /\ UNCHANGED <<engineVars, apiVars, server, ui>>

CodecDone ==
    /\ codec.op # "none"
    /\ codec' = [op |-> "none"]
    /\ UNCHANGED <<engineVars, apiVars, server, ui>>

NextCodec == CallParseTimestamp \/ CallFormatTimestamp \/ CodecDone

SpecCodec == Init /\ [][NextCodec]_vars

----------------------------------------------------------------------------
(* What the properties below speak about: the last shiftTime call *)

Returned == pc \in {"returned", "inverted"}
InCues == CueVals(heap0, cues)        \* the input cues as they were passed
OutCues == CueVals(heap, result)      \* the cues of the returned collection
Positions == 1..Len(InCues)
FullMode == startTimeMs = Null \/ endTimeMs = Null
PartialMode == startTimeMs # Null /\ endTimeMs # Null
InWindow(c) == startTimeMs[1] <= c.start /\ c.start <= endTimeMs[1]
Selected(c) == FullMode \/ InWindow(c)
Larger(a, b) == IF a < b THEN b ELSE a
ExpectedStart(c, k) == Larger(0, c.start + k)
ExpectedEnd(c, k) == Larger(ExpectedStart(c, k), Larger(0, c.end + k))
WellFormed(c) == c.start >= 0 /\ c.end >= c.start

(* C1 as stated: every cue of every output, in either mode, has            *)
(* start >= 0 and end >= start.                                            *)
C1_EveryOutputCueWellFormed ==
    Returned => \A i \in 1..Len(OutCues) : WellFormed(OutCues[i])

(* C1 amended: every cue that shiftTime shifts (every cue in full mode,    *)
(* every cue whose start is in the window in partial mode) comes out with  *)
(* start >= 0 and end >= start, for every offset; a cue outside the window *)
(* comes out well formed exactly when it went in well formed.              *)
C1_ShiftedCuesWellFormed ==
    Returned =>
        \A i \in 1..Len(OutCues) :
            /\ Len(OutCues) = Len(InCues)
            /\ Selected(InCues[i]) => WellFormed(OutCues[i])
            /\ ~Selected(InCues[i]) =>
                   (WellFormed(OutCues[i]) <=> WellFormed(InCues[i]))

(* C1 witness: an offset larger in magnitude than a shifted cue's start *)
C1_Witness ==
    /\ pc = "returned"
    /\ \E i \in Positions :
         /\ Selected(InCues[i])
         /\ InCues[i].start > 0
         /\ InCues[i].start + offsetMs < 0
         /\ InCues[i].end < InCues[i].start
         /\ OutCues[i].start = 0

(* C2: in partial mode a cue is shifted iff windowStart <= start <=        *)
(* windowEnd, both inclusive, whatever its end; an inverted window shifts  *)
(* no cue.                                                                 *)
C2_PartialSelectsByStart ==
    (Returned /\ PartialMode) =>
        /\ Len(OutCues) = Len(InCues)
        /\ \A i \in Positions :
             LET c == InCues[i]
                 o == OutCues[i]
                 within == startTimeMs[1] <= c.start /\ c.start <= endTimeMs[1]
             IN  /\ within => /\ o.start = ExpectedStart(c, offsetMs)
                              /\ o.end = ExpectedEnd(c, offsetMs)
                 /\ ~within => (o.start = c.start /\ o.end = c.end)
        /\ startTimeMs[1] > endTimeMs[1] =>
             \A i \in Positions : /\ OutCues[i].start = InCues[i].start
                                  /\ OutCues[i].end = InCues[i].end

(* C2 witness: a cue starting exactly at windowEnd is moved while a cue    *)
(* that starts before the window and ends inside it is not.                *)
C2_Witness ==
    /\ pc = "returned"
    /\ PartialMode
    /\ startTimeMs[1] < endTimeMs[1]
    /\ offsetMs # 0
    /\ \E i, j \in Positions :
         /\ InCues[i].start = endTimeMs[1]
         /\ OutCues[i].start # InCues[i].start
         /\ InCues[j].start < startTimeMs[1]
         /\ InCues[j].end >= startTimeMs[1]
         /\ InCues[j].end <= endTimeMs[1]
         /\ OutCues[j].start = InCues[j].start
         /\ OutCues[j].end = InCues[j].end

(* C3: every shifted cue has newStart = max(0, start + offsetMs) and       *)
(* newEnd = max(newStart, max(0, end + offsetMs)).                         *)
C3_ShiftFormula ==
    Returned =>
        \A i \in Positions :
            Selected(InCues[i]) =>
                /\ OutCues[i].start = Larger(0, InCues[i].start + offsetMs)
                /\ OutCues[i].end =
                       Larger(OutCues[i].start, Larger(0, InCues[i].end + offsetMs))

(* C3 witness: start < end, both pushed below zero, come out as 0 and 0    *)
(* (the scenario {5000, 7000} shifted by -8000, scaled to the bounds).     *)
C3_Witness ==
    /\ pc = "returned"
    /\ \E i \in Positions :
         /\ Selected(InCues[i])
         /\ InCues[i].start > 0
         /\ InCues[i].end > InCues[i].start
         /\ InCues[i].end + offsetMs < 0
         /\ OutCues[i].start = 0
         /\ OutCues[i].end = 0

(* C4 as stated: in full mode with offsetMs # 0 every output cue differs   *)
(* from its input cue.                                                     *)
C4_NoCueUnchanged ==
    (Returned /\ FullMode /\ offsetMs # 0) =>
        \A i \in Positions : OutCues[i] # InCues[i]

(* C4 amended: in full mode with offsetMs # 0 every output cue differs     *)
(* from its input cue, except a cue with start = 0 and end = 0 under a     *)
(* negative offset, which the clamp leaves at start = 0 and end = 0.       *)
C4_UnchangedOnlyAtZero ==
    (Returned /\ FullMode /\ offsetMs # 0) =>
        /\ Len(OutCues) = Len(InCues)
        /\ \A i \in Positions :
             (OutCues[i] = InCues[i]) <=>
                 (offsetMs < 0 /\ InCues[i].start = 0 /\ InCues[i].end = 0)

(* C4 witness: a negative full shift leaves a {0, 0} cue as it was and     *)
(* changes another cue of the same collection.                             *)
C4_Witness ==
    /\ pc = "returned"
    /\ FullMode
    /\ offsetMs < 0
    /\ \E i, j \in Positions :
         /\ InCues[i].start = 0
         /\ InCues[i].end = 0
         /\ OutCues[i] = InCues[i]
         /\ OutCues[j] # InCues[j]

(* C5: the output has the length of the input and at every position the    *)
(* index and the text of the input cue at that position.                   *)
C5_LengthIndexTextKept ==
    Returned =>
        /\ Len(OutCues) = Len(InCues)
        /\ \A i \in Positions :
             /\ OutCues[i].index = InCues[i].index
             /\ OutCues[i].text = InCues[i].text

(* C5 witness: a shift that puts two cues out of temporal order; their     *)
(* texts differ, so a swap would show.                                     *)
C5_Witness ==
    /\ pc = "returned"
    /\ Len(InCues) = 2
    /\ InCues[1].text # InCues[2].text
    /\ InCues[1].start < InCues[2].start
    /\ OutCues[1].start > OutCues[2].start

(* C6: in partial mode a cue whose start is outside the window comes out   *)
(* with its input start, end, text and index, as another object.           *)
C6_OutsideWindowCopied ==
    (Returned /\ PartialMode) =>
        \A i \in Positions :
            ~InWindow(InCues[i]) =>
                /\ heap[heap[result][i]] = heap0[heap0[cues][i]]
                /\ heap[result][i] # heap0[cues][i]
                /\ heap[result][i] \notin 1..Len(heap0)

(* C6 witness: a partial shift with a non-zero offset and a cue outside    *)
(* the window next to one inside it.                                       *)
C6_Witness ==
    /\ pc = "returned"
    /\ PartialMode
    /\ offsetMs # 0
    /\ \E i, j \in Positions :
         /\ ~InWindow(InCues[i])
         /\ InWindow(InCues[j])
         /\ OutCues[j] # InCues[j]

(* C7: shiftTime does not mutate its input: every object that existed      *)
(* before the call holds the same values after it, and the result is       *)
(* an array that did not exist before.                                     *)
C7_InputNotMutated ==
    Returned =>
        /\ Len(heap) >= Len(heap0)
        /\ \A r \in 1..Len(heap0) : heap[r] = heap0[r]
        /\ result # cues
        /\ result \notin 1..Len(heap0)

(* C7 witness: a call that changed the timing of a cue *)
C7_Witness ==
    /\ pc = "returned"
    /\ \E i \in Positions : OutCues[i].start # InCues[i].start
    /\ \E i \in Positions : OutCues[i].end # InCues[i].end

(* C8: a full shift by +k followed by a full shift by -k restores start    *)
(* and end of every cue for which neither step clamped.                    *)
NoClamping(c, k) ==
    /\ c.start >= 0
    /\ c.end >= c.start
    /\ c.start + k >= 0
    /\ c.end + k >= 0

C8_InverseRestores ==
    pc = "inverted" =>
        /\ Len(OutCues) = Len(origVals)
        /\ \A i \in 1..Len(origVals) :
             NoClamping(origVals[i], 0 - offsetMs) =>
                 /\ OutCues[i].start = origVals[i].start
                 /\ OutCues[i].end = origVals[i].end

(* C8 witness: a round trip with k # 0 that restores one cue and, because  *)
(* of a clamp, not another.                                                *)
C8_Witness ==
    /\ pc = "inverted"
    /\ offsetMs # 0
    /\ \E i, j \in 1..Len(origVals) :
         /\ NoClamping(origVals[i], 0 - offsetMs)
         /\ origVals[i].end > origVals[i].start
         /\ OutCues[i].start = origVals[i].start
         /\ OutCues[i].end = origVals[i].end
         /\ ~NoClamping(origVals[j], 0 - offsetMs)
         /\ OutCues[j].start # origVals[j].start

----------------------------------------------------------------------------
(* Properties of the handlers *)

Responded(kind) == apiPc = "responded" /\ req.kind = kind
StartAfterEnd == "Start time must be before end time"
EmptyFile == "The file appears to be empty or not in valid SRT format"

(* C9: a partial-mode shift request whose parsed window start exceeds its  *)
(* parsed window end is answered with the 'start after end' error, no      *)
(* shifted cues are returned and the cues of the request are as they were, *)
(* in the HTTP handler and in the desktop handler alike.  (The HTTP        *)
(* handler checks the cue list and the offset first, and the desktop       *)
(* handler needs a cue array; such requests fail with that error instead.) *)
C9_InvertedWindowRejected ==
    /\ (/\ Responded("http-shift")
        /\ req.body.mode = Str("partial")
        /\ parseTimestamp(req.body.startTime) > parseTimestamp(req.body.endTime))
       => /\ res.status = 400
          /\ DOMAIN res.body = {"error", "message"}
          /\ bodyCues = req.body.cues
          /\ (/\ req.body.cues.t = "array"
              /\ req.body.cues.elems # <<>>
              /\ req.body.offsetMs.t = "number")
             => /\ res.body.error = "Invalid range"
                /\ res.body.message = StartAfterEnd
    /\ (/\ Responded("ipc-shift")
        /\ req.body.mode = Str("partial")
        /\ ipcParseTimestamp(req.body.startTime) > ipcParseTimestamp(req.body.endTime))
       => /\ DOMAIN res = {"error", "message"}
          /\ res.error = TRUE
          /\ bodyCues = req.body.cues
          /\ req.body.cues.t = "array" => res.message = StartAfterEnd

(* C9 witness: the HTTP handler refuses the window 00:00:02,000 to         *)
(* 00:00:01,000 for a request that is valid otherwise.                     *)
C9_Witness ==
    /\ Responded("http-shift")
    /\ req.body.cues.t = "array"
    /\ Len(req.body.cues.elems) = 2
    /\ req.body.offsetMs = Num(1000)
    /\ req.body.mode = Str("partial")
    /\ req.body.startTime =
           Str(<<"0", "0", ":", "0", "0", ":", "0", "2", ",", "0", "0", "0">>)
    /\ req.body.endTime =
           Str(<<"0", "0", ":", "0", "0", ":", "0", "1", ",", "0", "0", "0">>)
    /\ res.status = 400
    /\ res.body.message = StartAfterEnd

(* C10: when the uploaded text decodes to zero cues the upload is answered *)
(* with an error and a message for the user, without cue list or metadata; *)
(* no upload succeeds with an empty cue list.  HTTP and desktop alike.     *)
NoCueNode(nodes) == \A i \in 1..Len(nodes) : nodes[i].type # "cue"

C10_EmptyUploadFails ==
    /\ (/\ Responded("http-upload")
        /\ req.body.hasFile
        /\ req.body.multerError = "none"
        /\ req.body.originalname \in
               {<<"a", ".", "s", "r", "t">>, <<"a", ".", "S", "R", "T">>,
                <<"a", ".", "s", "r", "t", ".", "s", "r", "t">>}
        /\ ~req.body.content.throws
        /\ NoCueNode(req.body.content.nodes))
       => /\ res.status = 400
          /\ DOMAIN res.body = {"error", "message"}
          /\ res.body.error = "Invalid SRT file"
          /\ res.body.message = EmptyFile
    /\ (/\ Responded("ipc-upload")
        /\ \/ req.body.hasFileData
           \/ (/\ ~req.body.dialog.canceled
               /\ req.body.dialog.filePaths # <<>>
               /\ ~req.body.readFails)
        /\ ~req.body.content.throws
        /\ NoCueNode(req.body.content.nodes))
       => /\ DOMAIN res = {"error", "message"}
          /\ res.error = TRUE
          /\ res.message = EmptyFile
    /\ (Responded("http-upload") /\ "success" \in DOMAIN res.body)
       => (res.body.cues # <<>> /\ res.body.cueCount > 0)
    /\ (Responded("ipc-upload") /\ "success" \in DOMAIN res)
       => (res.cues # <<>> /\ res.cueCount > 0)

(* C10 witness: a file of header nodes only, which decode to no cue *)
C10_Witness ==
    /\ Responded("http-upload")
    /\ req.body.hasFile
    /\ Len(req.body.content.nodes) = 2
    /\ NoCueNode(req.body.content.nodes)
    /\ res.status = 400
    /\ res.body.error = "Invalid SRT file"

----------------------------------------------------------------------------
(* The timestamp codec                                                     *)

Parsed == codec.op = "parse"
Formatted == codec.op = "format"
RecognisedForms == {"full", "hms", "ms", "seconds"}

(* How many of the four patterns the trimmed text matches *)
MatchCount(trimmed) ==
    Cardinality({k \in 1..4 :
        \/ k = 1 /\ fullMatch(trimmed)
        \/ k = 2 /\ hmsMatch(trimmed)
        \/ k = 3 /\ msMatch(trimmed)
        \/ k = 4 /\ secondsMatch(trimmed)})

(* C11: after trimming, parseTimestamp returns h*3600000 + m*60000 +       *)
(* s*1000 + ms for H:MM:SS,mmm and H:MM:SS.mmm, the same without ms for    *)
(* H:MM:SS, m*60000 + s*1000 for M:SS and value*1000 for a bare integer;   *)
(* a text matches at most one of the patterns.                             *)
C11_ParseByForm ==
    Parsed =>
        /\ codec.form \in RecognisedForms => codec.output = codec.expected
        /\ codec.input.t = "string" => MatchCount(trim(codec.input.v)) <= 1
        /\ codec.form \in RecognisedForms => MatchCount(trim(codec.input.v)) = 1

C11_Witness ==
    /\ Parsed
    /\ codec.form = "ms"
    /\ codec.input = Str(<<" ", "1", "2", ":", "5", "9", "\t", "\n">>)
    /\ codec.output = 12 * 60000 + 59 * 1000

(* C12: parseTimestamp returns 0 for every input of no recognised form:    *)
(* the empty text, a text that matches no pattern, null, undefined and a   *)
(* value that is not a string.                                             *)
C12_UnrecognisedIsZero ==
    (Parsed /\ codec.form \notin RecognisedForms) => codec.output = 0

C12_Witness ==
    /\ Parsed
    /\ codec.input = Str(<<"x", "1", ":", "0", "2">>)
    /\ codec.output = 0

(* The number a text of decimal digits stands for, -1 if it is not one *)
DigitNumbers ==
    [c \in {"0", "1", "2", "3", "4", "5", "6", "7", "8", "9"} |->
        CASE c = "0" -> 0 [] c = "1" -> 1 [] c = "2" -> 2 [] c = "3" -> 3
          [] c = "4" -> 4 [] c = "5" -> 5 [] c = "6" -> 6 [] c = "7" -> 7
          [] c = "8" -> 8 [] c = "9" -> 9]

RECURSIVE NumberOf(_)
NumberOf(t) ==
    IF t = <<>> \/ \E i \in 1..Len(t) : t[i] \notin DOMAIN DigitNumbers THEN 0 - 1
    ELSE IF Len(t) = 1 THEN DigitNumbers[t[1]]
    ELSE LET rest == NumberOf(SubSeq(t, 1, Len(t) - 1))
         IN  rest * 10 + DigitNumbers[t[Len(t)]]

(* text is HH:MM:SS,mmm for ms: hours of at least two digits, not wrapped *)
IsCanonical(text, ms) ==
    LET n == Len(text)
        hh == SubSeq(text, 1, n - 10)
    IN  /\ n >= 12
        /\ text[n - 9] = ":" /\ text[n - 6] = ":" /\ text[n - 3] = ","
        /\ NumberOf(hh) = ms \div 3600000
        /\ n > 12 => hh[1] # "0"
        /\ NumberOf(SubSeq(text, n - 8, n - 7)) = (ms \div 60000) % 60
        /\ NumberOf(SubSeq(text, n - 5, n - 4)) = (ms \div 1000) % 60
        /\ NumberOf(SubSeq(text, n - 2, n)) = ms % 1000

(* C13: formatTimestamp(ms) is HH:MM:SS,mmm with HH = floor(ms / 3600000)  *)
(* in at least two digits and not wrapped at 24, MM and SS in exactly two  *)
(* digits and mmm in exactly three.                                        *)
C13_FormatIsCanonical ==
    Formatted => IsCanonical(codec.text, codec.ms)

C13_Witness ==
    /\ Formatted
    /\ codec.ms = 24 * 3600000 + 2 * 60000 + 3 * 1000 + 1
    /\ codec.text = <<"2", "4", ":", "0", "2", ":", "0", "3", ",", "0", "0", "1">>

(* C14: parseTimestamp(formatTimestamp(ms)) = ms for every non-negative    *)
(* integer ms.                                                             *)
C14_FormatThenParse ==
    Formatted => codec.back = codec.ms

----------------------------------------------------------------------------
(* Decoding                                                                *)

CuePlaces(nodes) == {p \in 1..Len(nodes) : nodes[p].type = "cue"}
(* The number, counted from 1, of the cue node at place p among the cue nodes *)
RankOf(nodes, p) == Cardinality({q \in CuePlaces(nodes) : q <= p})

(* list is what decoding nodes must give *)
DecodedFrom(list, nodes) ==
    /\ Len(list) = Cardinality(CuePlaces(nodes))
    /\ \A p \in CuePlaces(nodes) :
         LET k == RankOf(nodes, p)
         IN  /\ list[k].index = k
             /\ list[k].startMs = nodes[p].data.start
             /\ list[k].endMs = nodes[p].data.end
             /\ list[k].text = nodes[p].data.text

(* C15: parseSRT drops every node that is not a cue, numbers the cues that *)
(* remain 1..n in their order, and copies start, end and text unchanged;   *)
(* seen in the cue list of every upload that succeeds, HTTP and desktop.   *)
C15_DecodeKeepsCuesOnly ==
    /\ (Responded("http-upload") /\ res.status = 200)
       => DecodedFrom(res.body.cues, req.body.content.nodes)
    /\ (Responded("ipc-upload") /\ "success" \in DOMAIN res)
       => DecodedFrom(res.cues, req.body.content.nodes)

(* C15 witness: a header node, then a cue node; the cue is number 1 *)
C15_Witness ==
    /\ Responded("http-upload")
    /\ res.status = 200
    /\ Len(req.body.content.nodes) = 2
    /\ req.body.content.nodes[1].type = "header"
    /\ req.body.content.nodes[2].type = "cue"
    /\ Len(res.body.cues) = 1
    /\ res.body.cues[1].index = 1
    /\ res.body.cues[1].text = TextAt(2)

----------------------------------------------------------------------------
(* The zero offset                                                         *)

----------------------------------------------------------------------------
(* Shift requests                                                          *)

(* A request with a cue list that is not empty and a number as offset *)
ValidShiftBody(body) ==
    /\ body.cues.t = "array"
    /\ body.cues.elems # <<>>
    /\ body.offsetMs.t = "number"

(* The window of a partial request, read by the timestamp codec, is inverted *)
InvertedWindow(body) ==
    /\ body.mode = Str("partial")
    /\ parseTimestamp(body.startTime) > parseTimestamp(body.endTime)

(* list is the request's cue list, one cue per cue, every cue shifted when *)
(* the mode is not 'partial'                                               *)
ShiftedFrom(list, body) ==
    /\ Len(list) = Len(body.cues.elems)
    /\ body.mode # Str("partial") =>
         \A i \in 1..Len(list) :
             LET c == body.cues.elems[i]
                 k == body.offsetMs.n
                 newStart == Larger(0, c.startMs + k)
             IN  /\ list[i].index = c.index
                 /\ list[i].text = c.text
                 /\ list[i].startMs = newStart
                 /\ list[i].endMs = Larger(newStart, Larger(0, c.endMs + k))

HttpShiftSucceeds ==
    (Responded("http-shift") /\ ValidShiftBody(req.body) /\ ~InvertedWindow(req.body))
        => /\ res.status = 200
           /\ res.body.success
           /\ ShiftedFrom(res.body.cues, req.body)

IpcShiftSucceeds ==
    (Responded("ipc-shift") /\ ValidShiftBody(req.body) /\ ~InvertedWindow(req.body))
        => /\ "success" \in DOMAIN res
           /\ ShiftedFrom(res.cues, req.body)

(* C18: a shift request with a cue list that is not empty, an integer      *)
(* offset and any mode succeeds with one shifted cue per input cue, unless *)
(* its window is inverted; a mode other than 'partial', a missing one      *)
(* included, is handled as full mode.  HTTP and desktop alike.             *)
C18_ShiftAlwaysSucceeds == HttpShiftSucceeds /\ IpcShiftSucceeds

(* C19: POST /api/shift and 'shift-subtitles' give the same outcome for    *)
(* the same cue list, offset, mode and window texts: both fail or both     *)
(* succeed with the same cues; both read each window text as the same      *)
(* number of ms.                                                           *)
C19_SameOutcomeOnBothPaths ==
    Responded("both-shift") =>
        /\ (res.http.status = 200) <=> ("success" \in DOMAIN res.ipc)
        /\ res.http.status = 200 =>
             /\ Len(res.http.body.cues) = Len(res.ipc.cues)
             /\ \A i \in 1..Len(res.http.body.cues) :
                  /\ res.http.body.cues[i].startMs = res.ipc.cues[i].startMs
                  /\ res.http.body.cues[i].endMs = res.ipc.cues[i].endMs
                  /\ res.http.body.cues[i].text = res.ipc.cues[i].text
                  /\ res.http.body.cues[i].index = res.ipc.cues[i].index
        /\ req.body.mode = Str("partial") =>
             /\ parseTimestamp(req.body.startTime) = ipcParseTimestamp(req.body.startTime)
             /\ parseTimestamp(req.body.endTime) = ipcParseTimestamp(req.body.endTime)

----------------------------------------------------------------------------
(* Malformed window bounds                                                 *)

MalformedBounds == {Undefined, Str(<<>>), Str(<<"x">>)}
OneSecondTexts ==
    {Str(<<"0", "0", ":", "0", "0", ":", "0", "1", ",", "0", "0", "0">>),
     Str(<<"0", ":", "0", "1">>),
     Str(<<" ", "0", "0", ":", "0", "0", ":", "0", "1", ".", "0", "0", "0", " ">>)}
TwoSecondTexts ==
    {Str(<<"0", "0", ":", "0", "0", ":", "0", "2", ",", "0", "0", "0">>),
     Str(<<"0", ":", "0", "0", ":", "0", "2">>),
     Str(<<"2">>)}
(* The ms a window bound text stands for, 0 for a malformed one *)
BoundMs(v) ==
    IF v \in OneSecondTexts THEN 1000
    ELSE IF v \in TwoSecondTexts THEN 2000
    ELSE 0

(* list is the request's cue list with exactly the cues whose start lies   *)
(* in [from, to] shifted                                                   *)
ShiftedInWindow(list, body, from, to) ==
    /\ Len(list) = Len(body.cues.elems)
    /\ \A i \in 1..Len(list) :
         LET c == body.cues.elems[i]
             k == body.offsetMs.n
             newStart == Larger(0, c.startMs + k)
             inside == from <= c.startMs /\ c.startMs <= to
         IN  /\ list[i].startMs = IF inside THEN newStart ELSE c.startMs
             /\ list[i].endMs = IF inside
                                THEN Larger(newStart, Larger(0, c.endMs + k))
                                ELSE c.endMs

(* C20: a malformed window bound text of a partial request is taken as 0   *)
(* and is not reported as an error.  With a malformed start text and a     *)
(* valid end text E the request succeeds and shifts exactly the cues whose *)
(* start lies in [0, E]; a malformed end text makes the window end 0.      *)
C20_MalformedBoundIsZero ==
    (/\ Responded("http-shift")
     /\ ValidShiftBody(req.body)
     /\ req.body.mode = Str("partial")
     /\ req.body.startTime \in MalformedBounds \/ req.body.endTime \in MalformedBounds)
    => LET from == BoundMs(req.body.startTime)
           to == BoundMs(req.body.endTime)
       IN  /\ req.body.startTime \in MalformedBounds =>
                /\ res.status = 200
                /\ ShiftedInWindow(res.body.cues, req.body, 0, to)
           /\ req.body.endTime \in MalformedBounds =>
                IF from > 0
                THEN res.status = 400 /\ res.body.error = "Invalid range"
                ELSE /\ res.status = 200
                     /\ ShiftedInWindow(res.body.cues, req.body, 0, 0)

(* C20 witness: start text "x", end text 00:00:01,000; of two cues the one *)
(* that starts at 1000 is shifted and the one that starts at 2000 is not.  *)
C20_Witness ==
    /\ Responded("http-shift")
    /\ ValidShiftBody(req.body)
    /\ req.body.mode = Str("partial")
    /\ req.body.startTime = Str(<<"x">>)
    /\ req.body.endTime =
           Str(<<"0", "0", ":", "0", "0", ":", "0", "1", ",", "0", "0", "0">>)
    /\ req.body.offsetMs = Num(1000)
    /\ Len(req.body.cues.elems) = 2
    /\ req.body.cues.elems[1].startMs = 1000
    /\ req.body.cues.elems[2].startMs = 2000
    /\ res.status = 200
    /\ res.body.cues[1].startMs = 2000
    /\ res.body.cues[2].startMs = 2000

----------------------------------------------------------------------------
(* The suggested file name                                                 *)

(* The names the upload filter accepts, among the names used *)
AcceptedNames ==
    {<<"a", ".", "s", "r", "t">>, <<"a", ".", "S", "R", "T">>,
     <<"a", ".", "s", "r", "t", ".", "s", "r", "t">>}

(* name with -shifted put in before its last four characters *)
ShiftedName(name) ==
    SubSeq(name, 1, Len(name) - 4) \o <<"-", "s", "h", "i", "f", "t", "e", "d">>
    \o SubSeq(name, Len(name) - 3, Len(name))

(* suggested is the right name for the filename of a download request *)
RightName(suggested, filename) ==
    /\ (filename.t = "string" /\ filename.v \in AcceptedNames)
          => /\ suggested = ShiftedName(filename.v)
             /\ suggested # filename.v
    /\ filename = Undefined => suggested = ShiftedSubtitlesDotSrt

(* C22: for a filename the upload filter accepts, the suggested output     *)
(* name is the original name with -shifted put in just before its final    *)
(* .srt suffix, in whatever case the suffix is written; without a filename *)
(* it is shifted-subtitles.srt.  HTTP and desktop alike.                   *)
C22_ShiftedBeforeFinalSuffix ==
    /\ (Responded("http-download") /\ res.status = 200)
          => RightName(res.attachment, req.body.filename)
    /\ (Responded("ipc-download") /\ res.defaultPath # Undefined)
          => RightName(res.defaultPath.v, req.body.filename)

----------------------------------------------------------------------------
(* Requests under way at once                                              *)

Answered(slot) == server.answer[slot] # NoRequest

----------------------------------------------------------------------------
(* Validation of a shift request                                           *)

(* An integer: a number that is neither NaN, nor infinite, nor fractional *)
IntegerNumber(v) == v.t = "number" /\ DOMAIN v = {"t", "n"}

(* C23: POST /api/shift answers 400 and shifts nothing when cues is        *)
(* missing, not an array or empty, or offsetMs is not a number; a request  *)
(* that passes reaches shiftTime with an integer-valued finite offset.     *)
C23_ValidatedOffsetIsInteger ==
    Responded("http-shift-call") =>
        /\ (\/ req.body.cues.t # "array"
            \/ req.body.cues.elems = <<>>
            \/ req.body.offsetMs.t # "number")
           => /\ res.status = 400
              /\ res.refused \in {"Invalid cues", "Invalid offset"}
              /\ res.shiftTimeOffset = Undefined
        /\ res.shiftTimeOffset # Undefined => IntegerNumber(res.shiftTimeOffset)

----------------------------------------------------------------------------
(* Absent bounds and the bound 0                                           *)

ShiftedAt(i) ==
    /\ OutCues[i].start = ExpectedStart(InCues[i], offsetMs)
    /\ OutCues[i].end = ExpectedEnd(InCues[i], offsetMs)

(* C24: shiftTime applies the window only when both bounds are given; if   *)
(* either is null every cue is shifted.  A bound of 0 is a bound: the      *)
(* window [0, 0] shifts exactly the cues that start at 0.                  *)
C24_WindowNeedsBothBounds ==
    pc = "returned" =>
        /\ Len(OutCues) = Len(InCues)
        /\ (startTimeMs = Null \/ endTimeMs = Null) =>
               \A i \in Positions : ShiftedAt(i)
        /\ (startTimeMs = Some(0) /\ endTimeMs = Some(0)) =>
               \A i \in Positions :
                   IF InCues[i].start = 0 THEN ShiftedAt(i)
                   ELSE OutCues[i] = InCues[i]

(* C24 witness: the window [0, 0] and a positive offset; the cue at 0 is   *)
(* moved and a later cue is not.                                           *)
C24_Witness ==
    /\ pc = "returned"
    /\ startTimeMs = Some(0)
    /\ endTimeMs = Some(0)
    /\ offsetMs > 0
    /\ \E i, j \in Positions :
         /\ InCues[i].start = 0
         /\ OutCues[i].start = offsetMs
         /\ InCues[j].start > 0
         /\ OutCues[j] = InCues[j]

----------------------------------------------------------------------------
(* The page: preview, download and the loaded file                         *)

(* The offsets handlePreview accepts among the texts of the offset field *)
AcceptedOffsetTexts ==
    {t \in OffsetTexts : ~isNaN(offsetOf(t)) /\ offsetOf(t).n # 0}

(* shifted is what a shift request for the cues now in state.cues gives *)
ShiftResultOfLoaded(u, shifted) ==
    /\ Len(u.state.cues) > 0
    /\ \E t \in AcceptedOffsetTexts :
         LET answer == shiftAnswer(u.isElectron,
                                   shiftRequestOf([u EXCEPT !.offsetInput = t]))
         IN  answer.ok /\ answer.data.cues = shifted

(* C25: whenever state.hasPreview is true, state.shiftedCues is the shift  *)
(* result of the cues now loaded in state.cues, under every interleaving   *)
(* of uploads, removals and preview answers.                               *)
C25_PreviewIsOfLoadedCues ==
    (ui.loaded /\ ui.state.hasPreview) =>
        ShiftResultOfLoaded(ui, ui.state.shiftedCues)

(* C26: once every preview request that was started has completed, the     *)
(* preview button is enabled and shows its original label again.           *)
C26_PreviewButtonRestored ==
    (ui.loaded /\ ui.previews = EmptyBag) =>
        ui.previewBtn = [disabled |-> FALSE, innerHTML |-> PreviewLabel]

(* The part of C26 about the disabled flag alone *)
C26_PreviewButtonEnabled ==
    (ui.loaded /\ ui.previews = EmptyBag) => ~ui.previewBtn.disabled

(* A step of the loaded page in which handleDownload sends its request *)
DownloadSent ==
    BagCardinality(ui'.downloads) > BagCardinality(ui.downloads)

(* A step in which handlePreview takes the successful answer of a request  *)
(* it awaited and assigns the answer's cues.                               *)
ShiftAnswerTaken ==
    \E task \in BagToSet(ui.previews) :
        LET answer == shiftAnswer(ui.isElectron, task.data)
        IN  /\ answer.ok
            /\ ui'.previews = Without(ui.previews, task)
            /\ ui'.state.shiftedCues = answer.data.cues

(* C27: a download request is sent only when state.hasPreview is true and *)
(* state.shiftedCues is not empty; hasPreview becomes true only when a     *)
(* successful shift answer is received, and a successful upload and a      *)
(* removal leave hasPreview false and shiftedCues empty.                   *)
C27_DownloadNeedsPreview ==
    [][(ui.loaded /\ ui'.loaded) =>
          /\ DownloadSent =>
                 /\ ui.state.hasPreview
                 /\ Len(ui.state.shiftedCues) > 0
                 /\ \E task \in BagToSet(ui'.downloads) :
                        task.data.cues = Arr(ui.state.shiftedCues)
          /\ (~ui.state.hasPreview /\ ui'.state.hasPreview) => ShiftAnswerTaken
          /\ ui'.last \in {Step("handleFileUpload", "succeeded"),
                           Step("resetState", "done")} =>
                 /\ ~ui'.state.hasPreview
                 /\ ui'.state.shiftedCues = <<>>]_vars

(* C27 witness: a download request is awaited that carries the shifted     *)
(* cues of a preview made for the loaded file.                             *)
C27_Witness ==
    /\ ui.loaded
    /\ ui.state.hasPreview
    /\ ShiftResultOfLoaded(ui, ui.state.shiftedCues)
    /\ \E task \in BagToSet(ui.downloads) :
         task.data.cues = Arr(ui.state.shiftedCues)

(* C28: a failed upload (wrong extension, error answer, exception) and a   *)
(* failed preview leave state.file, filename, cues, shiftedCues and        *)
(* hasPreview exactly as they were.                                        *)
C28_FailureLeavesState ==
    [][(/\ ui.loaded
        /\ ui'.loaded
        /\ ui'.last.handler \in {"handleFileUpload", "handlePreview"}
        /\ ui'.last.outcome \in {"refused", "failed"})
       => ui'.state = ui.state]_vars

(* The part of C28 about uploads alone *)
C28_FailedUploadLeavesState ==
    [][(/\ ui.loaded
        /\ ui'.loaded
        /\ ui'.last.handler = "handleFileUpload"
        /\ ui'.last.outcome \in {"refused", "failed"})
       => ui'.state = ui.state]_vars

----------------------------------------------------------------------------
(* Durations and temporal order                                            *)

Duration(c) == c.end - c.start

(* C29: for an input cue with 0 <= start <= end the shifted cue's duration *)
(* never grows: newEnd - newStart <= end - start, with equality whenever   *)
(* start + offsetMs >= 0.                                                  *)
C29_DurationNeverGrows ==
    pc = "returned" =>
        \A i \in Positions :
            (WellFormed(InCues[i]) /\ Selected(InCues[i])) =>
                /\ Duration(OutCues[i]) <= Duration(InCues[i])
                /\ InCues[i].start + offsetMs >= 0 =>
                       Duration(OutCues[i]) = Duration(InCues[i])

(* C29 witness: a cue pushed against 0 comes back shorter, and a cue       *)
(* shifted without clamping keeps its duration.                            *)
C29_Witness ==
    /\ pc = "returned"
    /\ \E i, j \in Positions :
         /\ WellFormed(InCues[i]) /\ Selected(InCues[i])
         /\ InCues[i].start + offsetMs < 0
         /\ Duration(OutCues[i]) < Duration(InCues[i])
         /\ WellFormed(InCues[j]) /\ Selected(InCues[j])
         /\ InCues[j].start + offsetMs >= 0
         /\ OutCues[j].start # InCues[j].start
         /\ Duration(InCues[j]) > 0
         /\ Duration(OutCues[j]) = Duration(InCues[j])

(* The outputs at positions i and j keep the order of the input starts,    *)
(* and of the input ends                                                   *)
StartOrderKept(i, j) ==
    InCues[i].start <= InCues[j].start => OutCues[i].start <= OutCues[j].start
EndOrderKept(i, j) ==
    InCues[i].end <= InCues[j].end => OutCues[i].end <= OutCues[j].end

(* C30 as stated: a full-mode shift keeps the order of the starts and the  *)
(* order of the ends of any two cues of the input, for every offset.       *)
C30_FullShiftKeepsOrder ==
    (pc = "returned" /\ FullMode) =>
        \A i, j \in Positions : StartOrderKept(i, j) /\ EndOrderKept(i, j)

(* C30 amended: a full-mode shift keeps the order of the starts of any two *)
(* cues, and the order of the ends when the earlier-ending cue does not    *)
(* end before it starts.                                                   *)
C30_FullShiftKeepsOrderOfWellFormed ==
    (pc = "returned" /\ FullMode) =>
        \A i, j \in Positions :
            /\ StartOrderKept(i, j)
            /\ InCues[i].start <= InCues[i].end => EndOrderKept(i, j)

(* C30 witness: a full-mode shift that clamps the earlier of two cues with *)
(* different starts and ends, and keeps both orders.                       *)
C30_Witness ==
    /\ pc = "returned"
    /\ FullMode
    /\ offsetMs < 0
    /\ \E i, j \in Positions :
         /\ WellFormed(InCues[i]) /\ WellFormed(InCues[j])
         /\ InCues[i].start < InCues[j].start
         /\ InCues[i].end < InCues[j].end
         /\ InCues[i].start + offsetMs < 0
         /\ OutCues[i].start <= OutCues[j].start
         /\ OutCues[i].end < OutCues[j].end

(* The second half of C30: a state in which a partial-mode shift has put   *)
(* an earlier cue after a later one.                                       *)
C30_PartialShiftReorders ==
    /\ pc = "returned"
    /\ PartialMode
    /\ \E i, j \in Positions :
         /\ WellFormed(InCues[i]) /\ WellFormed(InCues[j])
         /\ InCues[i].start < InCues[j].start
         /\ OutCues[i].start > OutCues[j].start

====
